---- MODULE Spec2Model ----
(***************************************************************************)
(* Risk gate (core/risk_manager.py) and trade ledger (core/trader.py) of   *)
(* the binary-options paper trading bot.                                   *)
(*                                                                         *)
(* Units.  Money is an integer number of mills (1/1000 USD): stakes are    *)
(* rounded to cents (10 mills) and a win pays 80% of a stake, so every     *)
(* amount the code computes is a whole number of mills.  The code uses     *)
(* binary floating point; the model uses the exact decimal values.  Time   *)
(* is an integer number of minutes since midnight of day 0, and one        *)
(* handler reads one clock value.  Prices are integers (1/10000).          *)
(***************************************************************************)
EXTENDS Integers, Sequences, FiniteSets, TLC

\* ------------------------------------------------------------- config.py
INITIAL_BALANCE == 20000
MAX_RISK_PER_TRADE_PCT == 2
MAX_DAILY_LOSS_PCT == 5
MAX_CONSECUTIVE_LOSSES == 3
COOLDOWN_MINUTES == 10
MAX_OPEN_TRADES == 2
MIN_BALANCE_RATIO_PCT == 10
TRADE_EXPIRY_MINUTES == 5
PAYOUT_RATE_PCT == 80

\* ---------------------------------------------------------------- bounds
MaxElapsed == 6
MaxTrades == 3
\* calls of process_signal: enough to fill the open-trade cap and be blocked
MaxLog == MAX_OPEN_TRADES + 1
\* minutes a run of the risk manager alone lasts
MaxElapsedRM == 15
MaxRecords == 4
MaxOpenCalls == 3
\* minutes and signals of the part of a long session that is explored
MaxElapsedLate == 10
MaxTradesLate == 2
MaxDefersLate == 3
MaxElapsedLive == 0
MaxTradesLive == 2
MaxDefersLive == 2

MinutesPerDay == 1440
MinStakeMills == 10
NoTime == -1
NoPrice == 0
DemoEntryPrice == 10000
DemoExitPrice == 9990
DemoConfidence == 75

\* the clock value a session starts at: 23:54, so that a run crosses midnight
StartTimes == {1434}
\* the balances RiskManager(balance) is constructed with
InitialBalances == {INITIAL_BALANCE, 1000}
\* the stakes record_trade_result is called with directly
Amounts == {300, 400, 9500}
Symbols == {"EUR/USD", "GBP/USD"}
\* the prices seen at expiry: below, at and above the signals' price
Prices == {10995, 11000, 11005}
TickSteps == {1, 5}
\* the risk manager alone starts at 23:45 and is called every five minutes:
\* a cooldown set by the first calls ends before midnight, a later one after
StartTimesRM == {1425}
TickStepsRM == {5}
DemoCounts == {1, 3}

VARIABLES
    now,                \* datetime.now(), minutes
    initial_balance,    \* RiskManager.initial_balance
    balance,            \* RiskManager.balance
    daily_stats,        \* RiskManager.daily_stats (a DailyStats)
    open_trades_count,  \* RiskManager.open_trades_count
    trade_history,      \* RiskManager.trade_history
    active_trades,      \* TradingEngine.active_trades
    completed_trades,   \* TradingEngine.completed_trades
    trade_counter,      \* TradingEngine._trade_counter
    signal_log,         \* TradingEngine._signal_log
    last,               \* the most recent call and what it returned
    armed_until,        \* history: the cooldown_until the latest streak set
    weights,            \* SignalEngine.weights
    df,                 \* the price history analyze() is called with
    analysis            \* analyze(): its locals at its return and the result

vars == <<now, initial_balance, balance, daily_stats, open_trades_count,
          trade_history, active_trades, completed_trades, trade_counter,
          signal_log, last, armed_until, weights, df, analysis>>

rmVars == <<initial_balance, balance, daily_stats, open_trades_count, trade_history>>
teVars == <<active_trades, completed_trades, trade_counter, signal_log>>
seVars == <<weights, df, analysis>>

\* ------------------------------------------------------------- helpers
Abs(x) == IF x < 0 THEN -x ELSE x
Min(a, b) == IF a < b THEN a ELSE b
Max(a, b) == IF a > b THEN a ELSE b

\* datetime.now().strftime("%Y-%m-%d"): the calendar day of a clock value
Today(t) == t \div MinutesPerDay

\* round(x, 2) of x = n/d USD given in mills as n/d, result in mills
\* (round half to even on the exact value)
RoundToCents(n, d) ==
    LET q == n \div (10 * d)
        r == n % (10 * d)
    IN  IF 2 * r < 10 * d THEN 10 * q
        ELSE IF 2 * r > 10 * d THEN 10 * (q + 1)
        ELSE IF q % 2 = 0 THEN 10 * q ELSE 10 * (q + 1)

\* ------------------------------------------------- Signal, SignalEngine
\* config.INDICATOR_WEIGHTS, in twentieths (0.20 is 4)
INDICATOR_WEIGHTS ==
    [rsi |-> 4, macd |-> 4, bollinger |-> 3, ema_cross |-> 4, stochastic |-> 3,
     support_resistance |-> 2]
\* the six indicators, in the order analyze() computes them
Indicators ==
    <<"rsi", "macd", "bollinger", "ema_cross", "stochastic", "support_resistance">>
MIN_SIGNAL_CONFIDENCE == 70
MinBars == 50
RSI_OVERBOUGHT == 70
RSI_OVERSOLD == 30
STOCH_OVERBOUGHT == 80
STOCH_OVERSOLD == 20
SR_LOOKBACK == 50
\* config.SR_TOLERANCE = 0.0005, per ten thousand
SR_TOLERANCE_E4 == 5

\* what an _analyze_* method hands back: its (score, direction), or the
\* exception that leaves it
Scored(score, direction) == [raised |-> FALSE, score |-> score, direction |-> direction]
Raised == [raised |-> TRUE, score |-> 0, direction |-> "NEUTRAL"]

\* the body of _analyze_rsi's try block: x.st = "nan" when the RSI is NaN
RsiScore(x) ==
    IF x.st = "nan" THEN Scored(0, "NEUTRAL")
    ELSE IF x.rsi_val <= RSI_OVERSOLD
    THEN LET strength == Min(100, ((RSI_OVERSOLD - x.rsi_val) * 200) \div RSI_OVERSOLD)
         IN  Scored(Max(60, strength), "CALL")
    ELSE IF x.rsi_val >= RSI_OVERBOUGHT
    THEN LET strength == Min(100, ((x.rsi_val - RSI_OVERBOUGHT) * 200)
                                      \div (100 - RSI_OVERBOUGHT))
         IN  Scored(Max(60, strength), "PUT")
    ELSE IF x.rsi_val < 45 THEN Scored(30, "CALL")
    ELSE IF x.rsi_val > 55 THEN Scored(30, "PUT")
    ELSE Scored(0, "NEUTRAL")

\* _analyze_rsi: x.st = "raise" when computing the RSI raises
AnalyzeRsiUnguarded(x) == IF x.st = "raise" THEN Raised ELSE RsiScore(x)
AnalyzeRsi(x) == IF x.st = "raise" THEN Scored(0, "NEUTRAL") ELSE RsiScore(x)

\* _analyze_macd: x.st = "nan" when macd_line or signal_line is NaN
AnalyzeMacd(x) ==
    IF x.st = "raise" THEN Scored(0, "NEUTRAL")
    ELSE IF x.st = "nan" THEN Scored(0, "NEUTRAL")
    ELSE IF x.histogram > 0 /\ x.prev_histogram <= 0 THEN Scored(85, "CALL")
    ELSE IF x.histogram < 0 /\ x.prev_histogram >= 0 THEN Scored(85, "PUT")
    ELSE IF x.histogram > 0
    THEN (IF x.histogram > x.prev_histogram THEN Scored(65, "CALL") ELSE Scored(45, "CALL"))
    ELSE IF x.histogram < 0
    THEN (IF x.histogram < x.prev_histogram THEN Scored(65, "PUT") ELSE Scored(45, "PUT"))
    ELSE Scored(0, "NEUTRAL")

\* _analyze_bollinger: x.st = "nan" when a band is NaN; position is
\* (price - lower) / band_width, compared in hundredths
AnalyzeBollinger(x, price) ==
    IF x.st = "raise" THEN Scored(0, "NEUTRAL")
    ELSE IF x.st = "nan" THEN Scored(0, "NEUTRAL")
    ELSE LET band_width == x.upper - x.lower
             pos100 == (price - x.lower) * 100
         IN  IF band_width = 0 THEN Scored(0, "NEUTRAL")
             ELSE IF pos100 <= 5 * band_width THEN Scored(80, "CALL")
             ELSE IF pos100 >= 95 * band_width THEN Scored(80, "PUT")
             ELSE IF pos100 <= 20 * band_width THEN Scored(55, "CALL")
             ELSE IF pos100 >= 80 * band_width THEN Scored(55, "PUT")
             ELSE IF pos100 < 45 * band_width THEN Scored(30, "CALL")
             ELSE IF pos100 > 55 * band_width THEN Scored(30, "PUT")
             ELSE Scored(0, "NEUTRAL")

\* _analyze_ema_cross: x.st = "nan" when fast_now or slow_now is NaN
AnalyzeEmaCrossPlainPercent(x) ==
    IF x.st = "raise" THEN Scored(0, "NEUTRAL")
    ELSE IF x.st = "nan" THEN Scored(0, "NEUTRAL")
    ELSE IF x.fast_prev <= x.slow_prev /\ x.fast_now > x.slow_now THEN Scored(90, "CALL")
    ELSE IF x.fast_prev >= x.slow_prev /\ x.fast_now < x.slow_now THEN Scored(90, "PUT")
    ELSE LET gap_pct == IF x.slow_now # 0
                        THEN (Abs(x.fast_now - x.slow_now) * 100) \div x.slow_now
                        ELSE 0
         IN  IF x.fast_now > x.slow_now THEN Scored(Min(70, 40 + gap_pct), "CALL")
             ELSE IF x.fast_now < x.slow_now THEN Scored(Min(70, 40 + gap_pct), "PUT")
             ELSE Scored(0, "NEUTRAL")
AnalyzeEmaCross(x) ==
    IF x.st = "raise" THEN Scored(0, "NEUTRAL")
    ELSE IF x.st = "nan" THEN Scored(0, "NEUTRAL")
    ELSE IF x.fast_prev <= x.slow_prev /\ x.fast_now > x.slow_now THEN Scored(90, "CALL")
    ELSE IF x.fast_prev >= x.slow_prev /\ x.fast_now < x.slow_now THEN Scored(90, "PUT")
    ELSE LET gap_pct_x100 == IF x.slow_now # 0
                             THEN (Abs(x.fast_now - x.slow_now) * 10000) \div x.slow_now
                             ELSE 0
         IN  IF x.fast_now > x.slow_now THEN Scored(Min(70, 40 + gap_pct_x100), "CALL")
             ELSE IF x.fast_now < x.slow_now THEN Scored(Min(70, 40 + gap_pct_x100), "PUT")
             ELSE Scored(0, "NEUTRAL")

\* _analyze_stochastic: x.st = "nan" when %K or %D is NaN; x.prev_ok is
\* false when the previous %K or %D is NaN
AnalyzeStochastic(x) ==
    IF x.st = "raise" THEN Scored(0, "NEUTRAL")
    ELSE IF x.st = "nan" THEN Scored(0, "NEUTRAL")
    ELSE IF x.k_val < STOCH_OVERSOLD
    THEN (IF x.prev_ok /\ x.k_prev <= x.d_prev /\ x.k_val > x.d_val
          THEN Scored(85, "CALL") ELSE Scored(60, "CALL"))
    ELSE IF x.k_val > STOCH_OVERBOUGHT
    THEN (IF x.prev_ok /\ x.k_prev >= x.d_prev /\ x.k_val < x.d_val
          THEN Scored(85, "PUT") ELSE Scored(60, "PUT"))
    ELSE IF x.k_val < 40 THEN Scored(25, "CALL")
    ELSE IF x.k_val > 60 THEN Scored(25, "PUT")
    ELSE Scored(0, "NEUTRAL")

\* the values of a pivot high (with highs) or of a pivot low (with lows
\* negated) among the bars: strictly above its two neighbours on each side
Pivots(values) ==
    {values[i] : i \in {j \in 3..(Len(values) - 2) :
                           /\ values[j] > values[j - 1] /\ values[j] > values[j - 2]
                           /\ values[j] > values[j + 1] /\ values[j] > values[j + 2]}}

\* _analyze_support_resistance over the last SR_LOOKBACK bars
AnalyzeSupportResistance(x, price) ==
    IF x.st = "raise" THEN Scored(0, "NEUTRAL")
    ELSE LET lookback == Min(SR_LOOKBACK, Len(x.highs))
             highs == SubSeq(x.highs, Len(x.highs) - lookback + 1, Len(x.highs))
             lows == SubSeq(x.lows, Len(x.lows) - lookback + 1, Len(x.lows))
             resistance_levels == Pivots(highs)
             support_levels == {-v : v \in Pivots([i \in 1..Len(lows) |-> -lows[i]])}
             near(level) == Abs(price - level) * 10000 <= price * SR_TOLERANCE_E4
             near_support == \E s \in support_levels : near(s)
             near_resistance == \E r \in resistance_levels : near(r)
         IN  IF support_levels = {} /\ resistance_levels = {} THEN Scored(0, "NEUTRAL")
             ELSE IF near_support /\ ~near_resistance THEN Scored(70, "CALL")
             ELSE IF near_resistance /\ ~near_support THEN Scored(70, "PUT")
             ELSE IF near_support /\ near_resistance THEN Scored(30, "NEUTRAL")
             ELSE Scored(0, "NEUTRAL")

\* the high and low columns of a frame of n bars: flat but for one bar
Highs(x, n) == [i \in 1..n |-> IF i = n \div 2 THEN x.peak ELSE x.high_base]
Lows(x, n) == [i \in 1..n |-> IF i = n \div 2 THEN x.trough ELSE x.low_base]

\* the six calls of analyze(), by indicator
IndicatorResult(ind, frame) ==
    CASE ind = "rsi" -> AnalyzeRsi(frame.rsi)
      [] ind = "macd" -> AnalyzeMacd(frame.macd)
      [] ind = "bollinger" -> AnalyzeBollinger(frame.bollinger, frame.close)
      [] ind = "ema_cross" -> AnalyzeEmaCross(frame.ema_cross)
      [] ind = "stochastic" -> AnalyzeStochastic(frame.stochastic)
      [] ind = "support_resistance" ->
            AnalyzeSupportResistance(
                [st |-> frame.support_resistance.st,
                 highs |-> Highs(frame.support_resistance, frame.nbars),
                 lows |-> Lows(frame.support_resistance, frame.nbars)],
                frame.close)

\* round(confidence, 1) of confidence = num/den >= 0, in tenths
RoundToTenths(num, den) ==
    LET q == (10 * num) \div den
        r == (10 * num) % den
    IN  IF 2 * r < den THEN q
        ELSE IF 2 * r > den THEN q + 1
        ELSE IF q % 2 = 0 THEN q ELSE q + 1

\* Signal.__init__ (confidence in tenths)
Signal(symbol, direction, conf, price) ==
    [symbol |-> symbol, direction |-> direction,
     confidence |-> RoundToTenths(conf.num, conf.den), price |-> price]
NoSignal == [symbol |-> "", direction |-> "NONE", confidence |-> 0, price |-> NoPrice]

\* weights.get(ind, 0) * scores.get(ind, 0)
Contribution(w, res, ind) == w[ind] * res[ind].score

\* call_weight (dir = "CALL") and put_weight (dir = "PUT")
DirectionWeight(w, res, dir) ==
    LET c(ind) == IF res[ind].direction = dir THEN Contribution(w, res, ind) ELSE 0
    IN  c("rsi") + c("macd") + c("bollinger") + c("ema_cross") + c("stochastic")
          + c("support_resistance")

\* the weighted vote
OverallDirectionStrict(call_weight, put_weight) ==
    IF call_weight > put_weight THEN "CALL" ELSE "PUT"
OverallDirection(call_weight, put_weight) ==
    IF call_weight >= put_weight THEN "CALL" ELSE "PUT"

\* the factor of the agreement boost, as a fraction (1.15 is 23/20)
AgreementBonusFromFour(agreeing) ==
    IF agreeing >= 4 THEN [num |-> 23, den |-> 20] ELSE [num |-> 1, den |-> 1]
AgreementBonus(agreeing) ==
    IF agreeing >= 5 THEN [num |-> 23, den |-> 20]
    ELSE IF agreeing >= 4 THEN [num |-> 21, den |-> 20]
    ELSE [num |-> 1, den |-> 1]

\* confidence >= config.MIN_SIGNAL_CONFIDENCE, confidence being num/den
EmitsAtFraction(conf) == conf.num * 100 >= MIN_SIGNAL_CONFIDENCE * conf.den
Emits(conf) == conf.num >= MIN_SIGNAL_CONFIDENCE * conf.den

NoResults == [ind \in {Indicators[i] : i \in 1..Len(Indicators)} |-> Scored(0, "NEUTRAL")]
Zero == [num |-> 0, den |-> 1]

\* analyze() left before its vote: stage says where
Left(stage, res) ==
    [stage |-> stage, results |-> res, call_weight |-> 0, put_weight |-> 0,
     overall_direction |-> "NONE", agreeing |-> 0, base |-> Zero,
     confidence |-> Zero, signal |-> NoSignal]
NotRun == [stage |-> "not_run"]

\* analyze(symbol, df): stage "short" is the guard on len(df), "aborted" the
\* except clause of analyze, "no_votes" the return on two zero sums, "done"
\* the confidence gate
Analyze(w, symbol, frame) ==
    IF frame.nbars < MinBars THEN Left("short", NoResults)
    ELSE LET res == [ind \in DOMAIN NoResults |-> IndicatorResult(ind, frame)]
             call_weight == DirectionWeight(w, res, "CALL")
             put_weight == DirectionWeight(w, res, "PUT")
             total == call_weight + put_weight
             overall_direction == OverallDirection(call_weight, put_weight)
             winning == IF overall_direction = "CALL" THEN call_weight ELSE put_weight
             weighted_sum == Contribution(w, res, "rsi") + Contribution(w, res, "macd")
                             + Contribution(w, res, "bollinger")
                             + Contribution(w, res, "ema_cross")
                             + Contribution(w, res, "stochastic")
                             + Contribution(w, res, "support_resistance")
             sum_weights == w.rsi + w.macd + w.bollinger + w.ema_cross + w.stochastic
                            + w.support_resistance
             \* (weighted_sum / max_possible) * 100 * agreement_ratio
             base == IF sum_weights > 0 /\ total > 0
                     THEN [num |-> weighted_sum * winning, den |-> sum_weights * total]
                     ELSE Zero
             agreeing == Cardinality({ind \in DOMAIN res :
                                          res[ind].direction = overall_direction})
             bonus == AgreementBonus(agreeing)
             boosted == [num |-> base.num * bonus.num, den |-> base.den * bonus.den]
             confidence == IF agreeing >= 4 /\ boosted.num > 100 * boosted.den
                           THEN [num |-> 100, den |-> 1]
                           ELSE boosted
         IN  IF \E ind \in DOMAIN res : res[ind].raised THEN Left("aborted", NoResults)
             ELSE IF call_weight = 0 /\ put_weight = 0 THEN Left("no_votes", res)
             ELSE [stage |-> "done", results |-> res, call_weight |-> call_weight,
                   put_weight |-> put_weight, overall_direction |-> overall_direction,
                   agreeing |-> agreeing, base |-> base, confidence |-> confidence,
                   signal |-> IF Emits(confidence)
                              THEN Signal(symbol, overall_direction, confidence,
                                          frame.close)
                              ELSE NoSignal]

\* the statistics each indicator reads off the frame; st tells whether the
\* computation raises, gives NaN or gives the values
RsiInputs ==
    {[st |-> f, rsi_val |-> 0] : f \in {"raise", "nan"}}
      \cup {[st |-> "ok", rsi_val |-> v] : v \in {15, 30, 50, 70}}
MacdInputs ==
    {[st |-> f, histogram |-> 0, prev_histogram |-> 0] : f \in {"raise", "nan"}}
      \cup {[st |-> "ok", histogram |-> h[1], prev_histogram |-> h[2]] :
               h \in {<<1, 0>>, <<2, 1>>, <<0, 0>>, <<-1, 0>>}}
BollingerInputs ==
    {[st |-> f, lower |-> 0, upper |-> 0] : f \in {"raise", "nan"}}
      \cup {[st |-> "ok", lower |-> b[1], upper |-> b[2]] :
               b \in {<<10000, 10100>>, <<9900, 10100>>, <<9900, 10000>>,
                      <<10000, 10000>>}}
EmaCrossInputs ==
    {[st |-> f, fast_now |-> 0, slow_now |-> 0, fast_prev |-> 0, slow_prev |-> 0] :
        f \in {"raise", "nan"}}
      \cup {[st |-> "ok", fast_now |-> e[1], slow_now |-> e[2], fast_prev |-> e[3],
             slow_prev |-> e[4]] :
               e \in {<<10010, 10000, 9990, 10000>>, <<10040, 10000, 10020, 10000>>,
                      <<10000, 10000, 10000, 10000>>, <<9960, 10000, 9980, 10000>>}}
StochasticInputs ==
    {[st |-> f, k_val |-> 0, d_val |-> 0, k_prev |-> 0, d_prev |-> 0, prev_ok |-> TRUE] :
        f \in {"raise", "nan"}}
      \cup {[st |-> "ok", k_val |-> k[1], d_val |-> k[2], k_prev |-> k[3],
             d_prev |-> k[4], prev_ok |-> k[5]] :
               k \in {<<10, 5, 4, 6, TRUE>>, <<10, 5, 4, 6, FALSE>>,
                      <<50, 50, 50, 50, TRUE>>, <<90, 95, 92, 93, TRUE>>}}
SupportResistanceInputs ==
    {[st |-> "raise", peak |-> 0, high_base |-> 0, trough |-> 0, low_base |-> 0]}
      \cup {[st |-> "ok", peak |-> p[1], high_base |-> p[2], trough |-> p[3],
             low_base |-> p[4]] :
               p \in {<<10020, 10020, 9996, 9998>>, <<10004, 10002, 9990, 9990>>,
                      <<10004, 10002, 9996, 9998>>, <<10020, 10020, 9990, 9990>>,
                      <<10050, 10020, 9990, 9990>>}}

\* the frames analyze() is called with: every combination on MinBars bars,
\* and one frame a bar short
Frames ==
    [nbars : {MinBars}, close : {10000}, rsi : RsiInputs, macd : MacdInputs,
     bollinger : BollingerInputs, ema_cross : EmaCrossInputs,
     stochastic : StochasticInputs, support_resistance : SupportResistanceInputs]
      \cup
    [nbars : {MinBars - 1}, close : {10000}, rsi : {[st |-> "ok", rsi_val |-> 15]},
     macd : {[st |-> "ok", histogram |-> 1, prev_histogram |-> 0]},
     bollinger : {[st |-> "ok", lower |-> 10000, upper |-> 10100]},
     ema_cross : {[st |-> "ok", fast_now |-> 10010, slow_now |-> 10000,
                   fast_prev |-> 9990, slow_prev |-> 10000]},
     stochastic : {[st |-> "ok", k_val |-> 10, d_val |-> 5, k_prev |-> 4,
                    d_prev |-> 6, prev_ok |-> TRUE]},
     support_resistance : {[st |-> "ok", peak |-> 10020, high_base |-> 10020,
                            trough |-> 9996, low_base |-> 9998]}]
NoFrame == [nbars |-> 0]

\* the values config.INDICATOR_WEIGHTS is given: the shipped ones, and a set
\* with a negative weight
WeightConfigs == {INDICATOR_WEIGHTS, [INDICATOR_WEIGHTS EXCEPT !.rsi = -4]}

\* SignalEngine.__init__
SignalEngineInit(cfg) == cfg

\* no signal engine at work
SEIdle ==
    /\ weights = SignalEngineInit(INDICATOR_WEIGHTS)
    /\ df = NoFrame
    /\ analysis = NotRun

\* -------------------------------------------------- DailyStats, RiskManager
DailyStats(date, starting_balance) ==
    [date |-> date, starting_balance |-> starting_balance, trades_taken |-> 0,
     wins |-> 0, losses |-> 0, total_pnl |-> 0, consecutive_losses |-> 0,
     cooldown_until |-> NoTime]

\* the RiskManager object as a record of its fields
RM == [initial_balance |-> initial_balance, balance |-> balance,
       daily_stats |-> daily_stats, open_trades_count |-> open_trades_count,
       trade_history |-> trade_history]

\* DailyStats.daily_loss_pct >= config.MAX_DAILY_LOSS * 100
DailyLossLimitHitAsFraction(ds) ==
    LET loss == Abs(Min(0, ds.total_pnl))
    IN  ds.starting_balance > 0 /\ loss >= MAX_DAILY_LOSS_PCT * ds.starting_balance
DailyLossLimitHit(ds) ==
    LET loss == Abs(Min(0, ds.total_pnl))
    IN  IF ds.starting_balance = 0 THEN FALSE
        ELSE IF ds.starting_balance > 0
        THEN loss * 100 >= MAX_DAILY_LOSS_PCT * ds.starting_balance
        ELSE loss * 100 <= MAX_DAILY_LOSS_PCT * ds.starting_balance

\* _reset_daily_stats()
ResetDailyStatsFromInitial(rm, t) ==
    IF rm.daily_stats.date # Today(t)
    THEN [rm EXCEPT !.daily_stats = DailyStats(Today(t), rm.initial_balance)]
    ELSE rm
ResetDailyStats(rm, t) ==
    IF rm.daily_stats.date # Today(t)
    THEN [rm EXCEPT !.daily_stats = DailyStats(Today(t), rm.balance)]
    ELSE rm

\* calculate_position_size()
CalculatePositionSizeOfInitial(rm) ==
    RoundToCents(rm.initial_balance * MAX_RISK_PER_TRADE_PCT, 100)
CalculatePositionSize(rm) == RoundToCents(rm.balance * MAX_RISK_PER_TRADE_PCT, 100)

R_BALANCE == "BALANCE TOO LOW"
R_DAILY == "DAILY LOSS LIMIT"
R_COOLDOWN == "COOLDOWN ACTIVE"
R_OPEN == "MAX OPEN TRADES"
R_SMALL == "POSITION TOO SMALL"
R_OK == "All risk checks passed"

\* rule 3 of can_trade blocks: the streak stands and its cooldown runs
CooldownBlocksReversed(ds, t) ==
    /\ ds.consecutive_losses >= MAX_CONSECUTIVE_LOSSES
    /\ ds.cooldown_until # NoTime
    /\ t > ds.cooldown_until
CooldownBlocksInclusive(ds, t) ==
    /\ ds.consecutive_losses >= MAX_CONSECUTIVE_LOSSES
    /\ ds.cooldown_until # NoTime
    /\ t <= ds.cooldown_until
CooldownBlocks(ds, t) ==
    /\ ds.consecutive_losses >= MAX_CONSECUTIVE_LOSSES
    /\ ds.cooldown_until # NoTime
    /\ t < ds.cooldown_until

\* rule 3 of can_trade when it does not block: an expired cooldown is cleared
CanTradeRule3AnyStreak(rm, t) ==
    IF rm.daily_stats.cooldown_until # NoTime
    THEN [rm EXCEPT !.daily_stats.consecutive_losses = 0,
                    !.daily_stats.cooldown_until = NoTime]
    ELSE rm
CanTradeRule3(rm, t) ==
    IF /\ rm.daily_stats.consecutive_losses >= MAX_CONSECUTIVE_LOSSES
       /\ rm.daily_stats.cooldown_until # NoTime
    THEN [rm EXCEPT !.daily_stats.consecutive_losses = 0,
                    !.daily_stats.cooldown_until = NoTime]
    ELSE rm

\* can_trade(): the manager after the call, and the pair it returns
CanTradeOpenFirst(rm0, t) ==
    LET rm == ResetDailyStats(rm0, t)
        ds == rm.daily_stats
    IN  IF rm.open_trades_count >= MAX_OPEN_TRADES
        THEN [rm |-> rm, allowed |-> FALSE, reason |-> R_OPEN]
        ELSE IF rm.balance * 100 < rm.initial_balance * MIN_BALANCE_RATIO_PCT
        THEN [rm |-> rm, allowed |-> FALSE, reason |-> R_BALANCE]
        ELSE IF DailyLossLimitHit(ds)
        THEN [rm |-> rm, allowed |-> FALSE, reason |-> R_DAILY]
        ELSE IF CooldownBlocks(ds, t)
        THEN [rm |-> rm, allowed |-> FALSE, reason |-> R_COOLDOWN]
        ELSE LET rm3 == CanTradeRule3(rm, t)
             IN  IF CalculatePositionSize(rm3) < MinStakeMills
                 THEN [rm |-> rm3, allowed |-> FALSE, reason |-> R_SMALL]
                 ELSE [rm |-> rm3, allowed |-> TRUE, reason |-> R_OK]

CanTradeOpenCapOffByOne(rm0, t) ==
    LET rm == ResetDailyStats(rm0, t)
        ds == rm.daily_stats
    IN  IF rm.balance * 100 < rm.initial_balance * MIN_BALANCE_RATIO_PCT
        THEN [rm |-> rm, allowed |-> FALSE, reason |-> R_BALANCE]
        ELSE IF DailyLossLimitHit(ds)
        THEN [rm |-> rm, allowed |-> FALSE, reason |-> R_DAILY]
        ELSE IF CooldownBlocks(ds, t)
        THEN [rm |-> rm, allowed |-> FALSE, reason |-> R_COOLDOWN]
        ELSE LET rm3 == CanTradeRule3(rm, t)
             IN  IF rm3.open_trades_count > MAX_OPEN_TRADES
                 THEN [rm |-> rm3, allowed |-> FALSE, reason |-> R_OPEN]
                 ELSE IF CalculatePositionSize(rm3) < MinStakeMills
                 THEN [rm |-> rm3, allowed |-> FALSE, reason |-> R_SMALL]
                 ELSE [rm |-> rm3, allowed |-> TRUE, reason |-> R_OK]

CanTrade(rm0, t) ==
    LET rm == ResetDailyStats(rm0, t)
        ds == rm.daily_stats
    IN  IF rm.balance * 100 < rm.initial_balance * MIN_BALANCE_RATIO_PCT
        THEN [rm |-> rm, allowed |-> FALSE, reason |-> R_BALANCE]
        ELSE IF DailyLossLimitHit(ds)
        THEN [rm |-> rm, allowed |-> FALSE, reason |-> R_DAILY]
        ELSE IF CooldownBlocks(ds, t)
        THEN [rm |-> rm, allowed |-> FALSE, reason |-> R_COOLDOWN]
        ELSE LET rm3 == CanTradeRule3(rm, t)
             IN  IF rm3.open_trades_count >= MAX_OPEN_TRADES
                 THEN [rm |-> rm3, allowed |-> FALSE, reason |-> R_OPEN]
                 ELSE IF CalculatePositionSize(rm3) < MinStakeMills
                 THEN [rm |-> rm3, allowed |-> FALSE, reason |-> R_SMALL]
                 ELSE [rm |-> rm3, allowed |-> TRUE, reason |-> R_OK]

\* amount * config.PAYOUT_RATE
PayoutWithStake(amount) == amount + (amount * PAYOUT_RATE_PCT) \div 100
Payout(amount) == (amount * PAYOUT_RATE_PCT) \div 100

HistoryRecord(won, amount, bal) ==
    [result |-> IF won THEN "WIN" ELSE "LOSS", amount |-> amount,
     pnl |-> IF won THEN Payout(amount) ELSE -amount, balance_after |-> bal]

\* the body of record_trade_result after its day rollover
RecordOutcomeKeepStreak(rm, t, won, amount) ==
    LET ds == rm.daily_stats
        cl == ds.consecutive_losses + 1
        bal == IF won THEN rm.balance + Payout(amount) ELSE rm.balance - amount
        ds1 == IF won
               THEN [ds EXCEPT !.wins = @ + 1, !.total_pnl = @ + Payout(amount)]
               ELSE [ds EXCEPT !.losses = @ + 1, !.total_pnl = @ - amount,
                               !.consecutive_losses = cl,
                               !.cooldown_until =
                                   IF cl >= MAX_CONSECUTIVE_LOSSES
                                   THEN t + COOLDOWN_MINUTES ELSE @]
    IN  [rm EXCEPT !.balance = bal,
                   !.daily_stats = [ds1 EXCEPT !.trades_taken = @ + 1],
                   !.trade_history = Append(@, HistoryRecord(won, amount, bal))]

RecordOutcomeCooldownOnce(rm, t, won, amount) ==
    LET ds == rm.daily_stats
        cl == ds.consecutive_losses + 1
        bal == IF won THEN rm.balance + Payout(amount) ELSE rm.balance - amount
        ds1 == IF won
               THEN [ds EXCEPT !.wins = @ + 1, !.total_pnl = @ + Payout(amount),
                               !.consecutive_losses = 0]
               ELSE [ds EXCEPT !.losses = @ + 1, !.total_pnl = @ - amount,
                               !.consecutive_losses = cl,
                               !.cooldown_until =
                                   IF cl = MAX_CONSECUTIVE_LOSSES
                                   THEN t + COOLDOWN_MINUTES ELSE @]
    IN  [rm EXCEPT !.balance = bal,
                   !.daily_stats = [ds1 EXCEPT !.trades_taken = @ + 1],
                   !.trade_history = Append(@, HistoryRecord(won, amount, bal))]

RecordOutcome(rm, t, won, amount) ==
    LET ds == rm.daily_stats
        cl == ds.consecutive_losses + 1
        bal == IF won THEN rm.balance + Payout(amount) ELSE rm.balance - amount
        ds1 == IF won
               THEN [ds EXCEPT !.wins = @ + 1, !.total_pnl = @ + Payout(amount),
                               !.consecutive_losses = 0]
               ELSE [ds EXCEPT !.losses = @ + 1, !.total_pnl = @ - amount,
                               !.consecutive_losses = cl,
                               !.cooldown_until =
                                   IF cl >= MAX_CONSECUTIVE_LOSSES
                                   THEN t + COOLDOWN_MINUTES ELSE @]
    IN  [rm EXCEPT !.balance = bal,
                   !.daily_stats = [ds1 EXCEPT !.trades_taken = @ + 1],
                   !.trade_history = Append(@, HistoryRecord(won, amount, bal))]

RecordTradeResult(rm, t, won, amount) ==
    RecordOutcome(ResetDailyStats(rm, t), t, won, amount)

OpenTrade(rm) == [rm EXCEPT !.open_trades_count = @ + 1]

CloseTrade(rm) == [rm EXCEPT !.open_trades_count = Max(0, @ - 1)]

\* get_status(): the manager after the call and the fields of the result
\* that depend on the rules
GetStatus(rm0, t) ==
    LET rm1 == ResetDailyStats(rm0, t)
        trade_amount == CalculatePositionSize(rm1)
        ct == CanTrade(rm1, t)
    IN  [rm |-> ct.rm, can_trade |-> ct.allowed, block_reason |-> ct.reason,
         trade_amount |-> trade_amount,
         cooldown_active |-> /\ ct.rm.daily_stats.cooldown_until # NoTime
                             /\ t < ct.rm.daily_stats.cooldown_until]

\* ------------------------------------------------------------- the calls
NoCall == [op |-> "none", allowed |-> FALSE, reason |-> "", won |-> FALSE,
           amount |-> 0, trade |-> 0, cooldown_active |-> FALSE]

SetRM(rm) ==
    /\ armed_until' = IF rm.daily_stats.cooldown_until \notin
                           {NoTime, daily_stats.cooldown_until}
                      THEN rm.daily_stats.cooldown_until ELSE armed_until
    /\ initial_balance' = rm.initial_balance
    /\ balance' = rm.balance
    /\ daily_stats' = rm.daily_stats
    /\ open_trades_count' = rm.open_trades_count
    /\ trade_history' = rm.trade_history

Elapsed == now - CHOOSE s \in StartTimes : now - s \in 0..(MinutesPerDay \div 2)
ElapsedRM == now - CHOOSE s \in StartTimesRM : now - s \in 0..(MinutesPerDay \div 2)

\* time passes between two calls of the risk manager
TickRM ==
    \E d \in TickStepsRM :
        /\ ElapsedRM + d <= MaxElapsedRM
        /\ now' = now + d
        /\ last' = NoCall
        /\ UNCHANGED <<rmVars, teVars, armed_until, seVars>>

\* time passes between two calls
Tick ==
    \E d \in TickSteps :
        /\ Elapsed + d <= MaxElapsed
        /\ now' = now + d
        /\ last' = NoCall
        /\ UNCHANGED <<rmVars, teVars, armed_until, seVars>>

\* ---------------------------------------- RiskManager driven by its API
RMCanTrade ==
    LET ct == CanTrade(RM, now)
    IN  /\ SetRM(ct.rm)
        /\ last' = [NoCall EXCEPT !.op = "can_trade", !.allowed = ct.allowed,
                                  !.reason = ct.reason]
        /\ UNCHANGED <<now, teVars, seVars>>

RMRecordTradeResult ==
    \E won \in BOOLEAN, amount \in Amounts :
        /\ Len(trade_history) < MaxRecords
        /\ amount <= balance
        /\ SetRM(RecordTradeResult(RM, now, won, amount))
        /\ last' = [NoCall EXCEPT !.op = "record_trade_result", !.won = won,
                                  !.amount = amount]
        /\ UNCHANGED <<now, teVars, seVars>>

RMCalculatePositionSize ==
    /\ last' = [NoCall EXCEPT !.op = "calculate_position_size",
                              !.amount = CalculatePositionSize(RM)]
    /\ UNCHANGED <<now, rmVars, teVars, armed_until, seVars>>

RMOpenTrade ==
    /\ open_trades_count < MaxOpenCalls
    /\ SetRM(OpenTrade(RM))
    /\ last' = [NoCall EXCEPT !.op = "open_trade"]
    /\ UNCHANGED <<now, teVars, seVars>>

RMCloseTrade ==
    /\ SetRM(CloseTrade(RM))
    /\ last' = [NoCall EXCEPT !.op = "close_trade"]
    /\ UNCHANGED <<now, teVars, seVars>>

RMGetStatus ==
    LET st == GetStatus(RM, now)
    IN  /\ SetRM(st.rm)
        /\ last' = [NoCall EXCEPT !.op = "get_status", !.allowed = st.can_trade,
                                  !.reason = st.block_reason,
                                  !.amount = st.trade_amount,
                                  !.cooldown_active = st.cooldown_active]
        /\ UNCHANGED <<now, teVars, seVars>>

InitRM ==
    /\ now \in StartTimesRM
    /\ \E b \in InitialBalances :
        /\ initial_balance = b
        /\ balance = b
        /\ daily_stats = DailyStats(Today(now), b)
    /\ open_trades_count = 0
    /\ trade_history = <<>>
    /\ active_trades = <<>>
    /\ completed_trades = <<>>
    /\ trade_counter = 0
    /\ signal_log = <<>>
    /\ last = NoCall
    /\ armed_until = NoTime
    /\ SEIdle

NextRM ==
    \/ TickRM
    \/ RMCanTrade
    \/ RMRecordTradeResult
    \/ RMCalculatePositionSize
    \/ RMOpenTrade
    \/ RMCloseTrade
    \/ RMGetStatus

SpecRM == InitRM /\ [][NextRM]_vars

\* ------------------------------------------------------ Trade, TradingEngine
\* Trade(...) with its __post_init__: expiry_time = entry_time + expiry window
Trade(id, symbol, direction, entry_price, stake, confidence, entry_time) ==
    [id |-> id, symbol |-> symbol, direction |-> direction,
     entry_price |-> entry_price, stake |-> stake, confidence |-> confidence,
     entry_time |-> entry_time,
     expiry_time |-> entry_time + TRADE_EXPIRY_MINUTES,
     exit_price |-> NoPrice, result |-> "NONE", pnl |-> 0, resolved |-> FALSE]

\* Trade.is_expired
IsExpiredFromEntry(trade, t) == t >= trade.entry_time
IsExpired(trade, t) == t >= trade.expiry_time

\* the signals process_signal is called with
Signals ==
    {[symbol |-> "EUR/USD", direction |-> "CALL", price |-> 11000, confidence |-> 75],
     [symbol |-> "GBP/USD", direction |-> "PUT", price |-> 11000, confidence |-> 75]}

\* the dicts check_and_resolve_trades is called with: a price for some symbols
PriceMaps == UNION {[S -> Prices] : S \in SUBSET Symbols}

\* the TradingEngine object (with its risk manager) as a record
TE == [rm |-> RM, active_trades |-> active_trades,
       completed_trades |-> completed_trades, trade_counter |-> trade_counter,
       signal_log |-> signal_log]

LogEntry(signal, action, detail) ==
    [symbol |-> signal.symbol, direction |-> signal.direction,
     price |-> signal.price, action |-> action, detail |-> detail]

\* the log after a signal was blocked: its last entry is overwritten
BlockedEntryLeftPending(log, reason) == log
BlockedEntry(log, reason) ==
    [log EXCEPT ![Len(log)].action = "BLOCKED", ![Len(log)].detail = reason]

\* process_signal(signal): the engine after the call and the trade id it
\* returns (0 for None)
ProcessSignal(te, signal, t) ==
    LET log1 == Append(te.signal_log, LogEntry(signal, "PENDING", ""))
        ct == CanTrade(te.rm, t)
    IN  IF ~ct.allowed
        THEN [te |-> [te EXCEPT !.rm = ct.rm,
                                !.signal_log = BlockedEntry(log1, ct.reason)],
              ret |-> 0, allowed |-> FALSE, reason |-> ct.reason]
        ELSE LET stake == CalculatePositionSize(ct.rm)
                 id == te.trade_counter + 1
                 trade == Trade(id, signal.symbol, signal.direction, signal.price,
                                stake, signal.confidence, t)
             IN  [te |-> [te EXCEPT !.rm = OpenTrade(ct.rm),
                                    !.trade_counter = id,
                                    !.active_trades = Append(@, trade),
                                    !.signal_log =
                                        [log1 EXCEPT ![Len(log1)].action = "EXECUTED",
                                                     ![Len(log1)].detail = ToString(stake)]],
                  ret |-> id, allowed |-> TRUE, reason |-> ct.reason]

\* whether _resolve_trade finds the trade won
WonOnEqual(trade) ==
    IF trade.direction = "CALL"
    THEN trade.exit_price >= trade.entry_price
    ELSE trade.exit_price <= trade.entry_price
Won(trade) ==
    IF trade.direction = "CALL"
    THEN trade.exit_price > trade.entry_price
    ELSE trade.exit_price < trade.entry_price

\* _resolve_trade(trade): the trade and the risk manager after the call
ResolveTradeUnflagged(trade, rm, t) ==
    IF trade.exit_price = NoPrice
    THEN [trade |-> trade, rm |-> rm]
    ELSE LET won == Won(trade)
         IN  [trade |-> [trade EXCEPT !.result = IF won THEN "WIN" ELSE "LOSS",
                                      !.pnl = IF won THEN Payout(trade.stake)
                                                     ELSE -trade.stake],
              rm |-> RecordTradeResult(rm, t, won, trade.stake)]
ResolveTrade(trade, rm, t) ==
    IF trade.exit_price = NoPrice
    THEN [trade |-> trade, rm |-> rm]
    ELSE LET won == Won(trade)
         IN  [trade |-> [trade EXCEPT !.resolved = TRUE,
                                      !.result = IF won THEN "WIN" ELSE "LOSS",
                                      !.pnl = IF won THEN Payout(trade.stake)
                                                     ELSE -trade.stake],
              rm |-> RecordTradeResult(rm, t, won, trade.stake)]

\* the loop of check_and_resolve_trades; acc holds still_active,
\* completed_trades and the risk manager.  A due trade without a price:
DeferTradeByExpiryWindow(acc, trade) ==
    [acc EXCEPT !.still_active =
        Append(@, [trade EXCEPT !.expiry_time = @ + TRADE_EXPIRY_MINUTES])]
DeferTradeAndClose(acc, trade) ==
    [acc EXCEPT !.still_active = Append(@, [trade EXCEPT !.expiry_time = @ + 1]),
                !.rm = CloseTrade(@)]
DeferTrade(acc, trade) ==
    [acc EXCEPT !.still_active = Append(@, [trade EXCEPT !.expiry_time = @ + 1])]

\* a due trade with a price
SettleTradeKeepActive(acc, trade, exit_price, t) ==
    LET r == ResolveTrade([trade EXCEPT !.exit_price = exit_price], acc.rm, t)
    IN  [acc EXCEPT !.completed = Append(@, r.trade), !.rm = CloseTrade(r.rm),
                    !.still_active = Append(@, r.trade)]
SettleTrade(acc, trade, exit_price, t) ==
    LET r == ResolveTrade([trade EXCEPT !.exit_price = exit_price], acc.rm, t)
    IN  [acc EXCEPT !.completed = Append(@, r.trade), !.rm = CloseTrade(r.rm)]

ResolveOneRetryCapped(acc, trade, prices, t) ==
    IF IsExpired(trade, t)
    THEN IF trade.symbol \notin DOMAIN prices
         THEN IF trade.expiry_time > trade.entry_time + TRADE_EXPIRY_MINUTES
              THEN acc
              ELSE DeferTrade(acc, trade)
         ELSE SettleTrade(acc, trade, prices[trade.symbol], t)
    ELSE [acc EXCEPT !.still_active = Append(@, trade)]
ResolveOne(acc, trade, prices, t) ==
    IF IsExpired(trade, t)
    THEN IF trade.symbol \notin DOMAIN prices
         THEN DeferTrade(acc, trade)
         ELSE SettleTrade(acc, trade, prices[trade.symbol], t)
    ELSE [acc EXCEPT !.still_active = Append(@, trade)]

RECURSIVE ResolveLoop(_, _, _, _)
ResolveLoop(acc, trades, prices, t) ==
    IF trades = <<>> THEN acc
    ELSE ResolveLoop(ResolveOne(acc, Head(trades), prices, t), Tail(trades), prices, t)

\* check_and_resolve_trades(current_prices)
CheckAndResolveTrades(te, prices, t) ==
    LET acc == ResolveLoop([still_active |-> <<>>, completed |-> te.completed_trades,
                            rm |-> te.rm], te.active_trades, prices, t)
    IN  [te EXCEPT !.rm = acc.rm, !.active_trades = acc.still_active,
                   !.completed_trades = acc.completed]

\* one iteration of the loop of simulate_demo_losses; stop is its break
DemoLossUngated(te, t) ==
    LET ct == CanTrade(te.rm, t)
        stake == CalculatePositionSize(ct.rm)
        id == te.trade_counter + 1
        trade == [Trade(id, "DEMO", "CALL", DemoEntryPrice, stake, DemoConfidence,
                        t - (TRADE_EXPIRY_MINUTES + 1))
                  EXCEPT !.exit_price = DemoExitPrice, !.resolved = TRUE,
                         !.result = "LOSS", !.pnl = -stake]
    IN  [te |-> [te EXCEPT !.rm = IF ct.allowed
                                  THEN RecordTradeResult(ct.rm, t, FALSE, stake)
                                  ELSE ct.rm,
                           !.trade_counter = id,
                           !.completed_trades = Append(@, trade)],
         stop |-> ~ct.allowed]
DemoLoss(te, t) ==
    LET ct == CanTrade(te.rm, t)
        stake == CalculatePositionSize(ct.rm)
        id == te.trade_counter + 1
        trade == [Trade(id, "DEMO", "CALL", DemoEntryPrice, stake, DemoConfidence,
                        t - (TRADE_EXPIRY_MINUTES + 1))
                  EXCEPT !.exit_price = DemoExitPrice, !.resolved = TRUE,
                         !.result = "LOSS", !.pnl = -stake]
    IN  IF ct.allowed
        THEN [te |-> [te EXCEPT !.rm = RecordTradeResult(ct.rm, t, FALSE, stake),
                                !.trade_counter = id,
                                !.completed_trades = Append(@, trade)],
              stop |-> FALSE]
        ELSE [te |-> [te EXCEPT !.rm = ct.rm, !.trade_counter = id],
              stop |-> TRUE]

RECURSIVE SimulateDemoLosses(_, _, _)
SimulateDemoLosses(te, count, t) ==
    IF count = 0 THEN te
    ELSE LET r == DemoLoss(te, t)
         IN  IF r.stop THEN r.te ELSE SimulateDemoLosses(r.te, count - 1, t)

SetTE(te) ==
    /\ SetRM(te.rm)
    /\ active_trades' = te.active_trades
    /\ completed_trades' = te.completed_trades
    /\ trade_counter' = te.trade_counter
    /\ signal_log' = te.signal_log

\* ------------------------------------------- the engine driven by app.py
DoProcessSignal ==
    \E signal \in Signals :
        /\ trade_counter < MaxTrades
        /\ Len(signal_log) < MaxLog
        /\ LET r == ProcessSignal(TE, signal, now)
           IN  /\ SetTE(r.te)
               /\ last' = [NoCall EXCEPT !.op = "process_signal", !.trade = r.ret,
                                         !.allowed = r.allowed, !.reason = r.reason]
        /\ UNCHANGED <<now, seVars>>

\* current_prices.get() is asked for the symbols of active trades only: the
\* prices of other symbols are left out, they change nothing
DoCheckAndResolveTrades ==
    \E prices \in PriceMaps :
        /\ DOMAIN prices \subseteq {active_trades[i].symbol : i \in 1..Len(active_trades)}
        /\ SetTE(CheckAndResolveTrades(TE, prices, now))
        /\ last' = NoCall
        /\ UNCHANGED <<now, seVars>>

DoSimulateDemoLosses ==
    \E count \in DemoCounts :
        /\ trade_counter + count <= MaxTrades
        /\ SetTE(SimulateDemoLosses(TE, count, now))
        /\ last' = NoCall
        /\ UNCHANGED <<now, seVars>>

DoGetStatus ==
    LET st == GetStatus(RM, now)
    IN  /\ SetRM(st.rm)
        /\ last' = [NoCall EXCEPT !.op = "get_status", !.allowed = st.can_trade,
                                  !.reason = st.block_reason,
                                  !.amount = st.trade_amount,
                                  !.cooldown_active = st.cooldown_active]
        /\ UNCHANGED <<now, teVars, seVars>>

Init ==
    /\ now \in StartTimes
    /\ initial_balance = INITIAL_BALANCE
    /\ balance = INITIAL_BALANCE
    /\ daily_stats = DailyStats(Today(now), INITIAL_BALANCE)
    /\ open_trades_count = 0
    /\ trade_history = <<>>
    /\ active_trades = <<>>
    /\ completed_trades = <<>>
    /\ trade_counter = 0
    /\ signal_log = <<>>
    /\ last = NoCall
    /\ armed_until = NoTime
    /\ SEIdle

Next ==
    \/ Tick
    \/ DoProcessSignal
    \/ DoCheckAndResolveTrades
    \/ DoSimulateDemoLosses
    \/ DoGetStatus

Spec == Init /\ [][Next]_vars

\* ------------------------------------------------- the end of a long session
\* The engine after weeks of scans, as the calls above leave it: one signal
\* per scan, its trade resolved by the scan five minutes later.
EurCall == CHOOSE s \in Signals : s.symbol = "EUR/USD"
GbpPut == CHOOSE s \in Signals : s.symbol = "GBP/USD"

\* RiskManager() and TradingEngine(risk_manager) constructed at t
FreshEngine(t) ==
    [rm |-> [initial_balance |-> INITIAL_BALANCE, balance |-> INITIAL_BALANCE,
             daily_stats |-> DailyStats(Today(t), INITIAL_BALANCE),
             open_trades_count |-> 0, trade_history |-> <<>>],
     active_trades |-> <<>>, completed_trades |-> <<>>, trade_counter |-> 0,
     signal_log |-> <<>>]

\* a EUR/USD signal at t, and the scan at its expiry with only EUR/USD priced
ScanCycle(te, t, price) ==
    CheckAndResolveTrades(ProcessSignal(te, EurCall, t).te,
                          [sym \in {"EUR/USD"} |-> price], t + TRADE_EXPIRY_MINUTES)

\* n such cycles one after the other (the first half is computed before the
\* second is begun)
RECURSIVE ScanCycles(_, _, _, _)
ScanCycles(te, t, n, price) ==
    IF n = 0 THEN te
    ELSE IF n = 1 THEN ScanCycle(te, t, price)
    ELSE LET half == ScanCycles(te, t, n \div 2, price)
         IN  IF half.trade_counter < 0 THEN half
             ELSE ScanCycles(half, t + (n \div 2) * TRADE_EXPIRY_MINUTES,
                             n - (n \div 2), price)

\* n days on each of which the first three signals after midnight lose
RECURSIVE LosingDays(_, _, _)
LosingDays(te, day, n) ==
    IF n = 0 THEN te
    ELSE IF n = 1
    THEN ScanCycles(te, day * MinutesPerDay, MAX_CONSECUTIVE_LOSSES, 10995)
    ELSE LET half == LosingDays(te, day, n \div 2)
         IN  IF half.trade_counter < 0 THEN half
             ELSE LosingDays(half, day + (n \div 2), n - (n \div 2))

\* 102 winning trades in a row from the session start, then a GBP/USD trade
\* opened whose symbol gets no price from then on, then 64 losing days; the
\* clock stands at the next midnight
LongSession ==
    LET start == CHOOSE t \in StartTimes : TRUE
        wins == 102
        days == 64
        opened_at == start + wins * TRADE_EXPIRY_MINUTES
        grown == ScanCycles(FreshEngine(start), start, wins, 11005)
        opened == ProcessSignal(grown, GbpPut, opened_at).te
        first_day == Today(opened_at) + 1
    IN  [te |-> LosingDays(opened, first_day, days),
         now |-> (first_day + days) * MinutesPerDay]

ElapsedLate == now - LongSession.now

\* the scans stay an expiry window apart, as in the weeks before
TickLate ==
    \E d \in {TRADE_EXPIRY_MINUTES} :
        /\ ElapsedLate + d <= MaxElapsedLate
        /\ now' = now + d
        /\ last' = NoCall
        /\ UNCHANGED <<rmVars, teVars, armed_until, seVars>>

DoProcessSignalLate ==
    \E signal \in Signals :
        /\ trade_counter < LongSession.te.trade_counter + MaxTradesLate
        /\ Len(signal_log) < Len(LongSession.te.signal_log) + MaxTradesLate + 1
        /\ LET r == ProcessSignal(TE, signal, now)
           IN  /\ SetTE(r.te)
               /\ last' = [NoCall EXCEPT !.op = "process_signal", !.trade = r.ret,
                                         !.allowed = r.allowed, !.reason = r.reason]
        /\ UNCHANGED <<now, seVars>>

\* the scans since the clock stood at that midnight that found the long-open
\* trade without a price: each moved its expiry_time by a minute
DefersLate ==
    LET was == LongSession.te.active_trades[1]
        same == {i \in 1..Len(active_trades) : active_trades[i].id = was.id}
    IN  IF same = {} THEN 0
        ELSE active_trades[CHOOSE i \in same : TRUE].expiry_time - was.expiry_time

DoCheckAndResolveTradesLate ==
    \E prices \in PriceMaps :
        /\ DefersLate < MaxDefersLate
        /\ DOMAIN prices \subseteq {active_trades[i].symbol : i \in 1..Len(active_trades)}
        /\ SetTE(CheckAndResolveTrades(TE, prices, now))
        /\ last' = NoCall
        /\ UNCHANGED <<now, seVars>>

InitLate ==
    /\ now = LongSession.now
    /\ initial_balance = LongSession.te.rm.initial_balance
    /\ balance = LongSession.te.rm.balance
    /\ daily_stats = LongSession.te.rm.daily_stats
    /\ open_trades_count = LongSession.te.rm.open_trades_count
    /\ trade_history = LongSession.te.rm.trade_history
    /\ active_trades = LongSession.te.active_trades
    /\ completed_trades = LongSession.te.completed_trades
    /\ trade_counter = LongSession.te.trade_counter
    /\ signal_log = LongSession.te.signal_log
    /\ last = NoCall
    /\ armed_until = LongSession.te.rm.daily_stats.cooldown_until
    /\ SEIdle

NextLate ==
    \/ TickLate
    \/ DoProcessSignalLate
    \/ DoCheckAndResolveTradesLate

SpecLate == InitLate /\ [][NextLate]_vars

\* ------------------------------------------ SignalEngine.analyze on a frame
DoAnalyze ==
    /\ analysis.stage = "not_run"
    /\ analysis' = Analyze(weights, "EUR/USD", df)
    /\ UNCHANGED <<now, rmVars, teVars, last, armed_until, weights, df>>

InitSE ==
    /\ now \in StartTimes
    /\ initial_balance = INITIAL_BALANCE
    /\ balance = INITIAL_BALANCE
    /\ daily_stats = DailyStats(Today(now), INITIAL_BALANCE)
    /\ open_trades_count = 0
    /\ trade_history = <<>>
    /\ active_trades = <<>>
    /\ completed_trades = <<>>
    /\ trade_counter = 0
    /\ signal_log = <<>>
    /\ last = NoCall
    /\ armed_until = NoTime
    /\ weights \in {SignalEngineInit(cfg) : cfg \in WeightConfigs}
    /\ df \in Frames
    /\ analysis = NotRun

NextSE == DoAnalyze

SpecSE == InitSE /\ [][NextSE]_vars

\* ------------------------------- the engine under the auto-refresh loop
\* app.py:540-543 sleeps, scans and reruns for as long as auto trading is
\* on: the clock keeps advancing and check_and_resolve_trades keeps being
\* called. The session is followed until its last trade has left the active
\* list; the scans that find a due trade without a price are counted per
\* trade by the minutes they have added to its expiry_time.
Deferrals(trade) == trade.expiry_time - (trade.entry_time + TRADE_EXPIRY_MINUTES)

TickLive ==
    \E d \in TickSteps :
        /\ \/ Elapsed + d <= MaxElapsedLive
           \/ \E i \in 1..Len(active_trades) : ~IsExpired(active_trades[i], now)
        /\ now' = now + d
        /\ last' = NoCall
        /\ UNCHANGED <<rmVars, teVars, armed_until, seVars>>

DoProcessSignalLive ==
    \E signal \in Signals :
        /\ trade_counter < MaxTradesLive
        /\ Len(signal_log) < MaxLog
        /\ Elapsed <= MaxElapsedLive
        /\ LET r == ProcessSignal(TE, signal, now)
           IN  /\ SetTE(r.te)
               /\ last' = [NoCall EXCEPT !.op = "process_signal", !.trade = r.ret,
                                         !.allowed = r.allowed, !.reason = r.reason]
        /\ UNCHANGED <<now, seVars>>

DoCheckAndResolveTradesLive ==
    \E prices \in PriceMaps :
        /\ DOMAIN prices \subseteq {active_trades[i].symbol : i \in 1..Len(active_trades)}
        /\ \A i \in 1..Len(active_trades) :
              (IsExpired(active_trades[i], now) /\ active_trades[i].symbol \notin DOMAIN prices)
                  => Deferrals(active_trades[i]) < MaxDefersLive
        /\ SetTE(CheckAndResolveTrades(TE, prices, now))
        /\ last' = NoCall
        /\ UNCHANGED <<now, seVars>>

NextLive == TickLive \/ DoProcessSignalLive \/ DoCheckAndResolveTradesLive

SpecLive ==
    /\ Init
    /\ [][NextLive]_vars
    /\ WF_vars(TickLive)
    /\ WF_vars(DoCheckAndResolveTradesLive)

\* ------------------------------------ _analyze_ema_cross on a pair of EMAs
\* the EMAs it is given: the slow one level over the last two bars, the fast
\* one below, at or above it by up to 0.4% (0.8% of the lower level)
EmaLevels == {5000, 10000}
EmaGaps == {-40, -30, -29, -5, -1, 0, 1, 5, 29, 30, 40}
EmaPrevGaps == {-5, 0, 5}
EmaCrossCases ==
    {[st |-> f, fast_now |-> 0, slow_now |-> 0, fast_prev |-> 0, slow_prev |-> 0] :
        f \in {"raise", "nan"}}
      \cup {[st |-> "ok", fast_now |-> slow + gap, slow_now |-> slow,
             fast_prev |-> slow + prev, slow_prev |-> slow] :
               slow \in EmaLevels, gap \in EmaGaps, prev \in EmaPrevGaps}

DoAnalyzeEmaCross ==
    /\ analysis.stage = "not_run"
    /\ analysis' = [stage |-> "ema_cross", result |-> AnalyzeEmaCross(df.ema_cross)]
    /\ UNCHANGED <<now, rmVars, teVars, last, armed_until, weights, df>>

InitEma ==
    /\ now \in StartTimes
    /\ initial_balance = INITIAL_BALANCE
    /\ balance = INITIAL_BALANCE
    /\ daily_stats = DailyStats(Today(now), INITIAL_BALANCE)
    /\ open_trades_count = 0
    /\ trade_history = <<>>
    /\ active_trades = <<>>
    /\ completed_trades = <<>>
    /\ trade_counter = 0
    /\ signal_log = <<>>
    /\ last = NoCall
    /\ armed_until = NoTime
    /\ weights = SignalEngineInit(INDICATOR_WEIGHTS)
    /\ df \in {[nbars |-> MinBars, ema_cross |-> x] : x \in EmaCrossCases}
    /\ analysis = NotRun

NextEma == DoAnalyzeEmaCross

SpecEma == InitEma /\ [][NextEma]_vars

\* ------------------------------------------------------------- claims
RECURSIVE SumPnl(_)
SumPnl(trades) ==
    IF trades = <<>> THEN 0 ELSE Head(trades).pnl + SumPnl(Tail(trades))

Ids(trades) == {trades[i].id : i \in 1..Len(trades)}

\* C1: after any sequence of process_signal, check_and_resolve_trades and
\* simulate_demo_losses calls, balance equals initial_balance plus the sum
\* of pnl over all trades in completed_trades.
C1_BalanceIsInitialPlusPnl ==
    balance = initial_balance + SumPnl(completed_trades)

\* a demo loss, a resolved winning trade and a resolved losing trade
C1_Witness ==
    /\ \E i \in 1..Len(completed_trades) : completed_trades[i].symbol = "DEMO"
    /\ \E i \in 1..Len(completed_trades) :
          /\ completed_trades[i].symbol # "DEMO"
          /\ completed_trades[i].result = "WIN"
    /\ \E i \in 1..Len(completed_trades) :
          /\ completed_trades[i].symbol # "DEMO"
          /\ completed_trades[i].result = "LOSS"

\* C2: in every reachable state open_trades_count equals the number of
\* trades in active_trades, all of which have resolved = false.
C2_OpenCountMatchesActive ==
    /\ open_trades_count = Len(active_trades)
    /\ \A i \in 1..Len(active_trades) : ~active_trades[i].resolved

\* one trade was deferred and is still open after another was resolved
C2_Witness ==
    /\ open_trades_count = 1
    /\ \E i \in 1..Len(active_trades) :
          active_trades[i].expiry_time > active_trades[i].entry_time + TRADE_EXPIRY_MINUTES
    /\ \E i \in 1..Len(completed_trades) : completed_trades[i].symbol # "DEMO"

\* C3: can_trade() evaluates its rules in the order balance floor, daily
\* loss limit, consecutive-loss cooldown, max open trades, position too
\* small: the reason returned is that of the first rule in this order whose
\* condition holds, and the call returns (true, all checks passed) exactly
\* when none of the five conditions holds.  The conditions are those of the
\* manager after the call's day rollover.
C3_RuleOrder ==
    [][last'.op = "can_trade" =>
        LET rm == ResetDailyStats(RM, now)
            ds == rm.daily_stats
            c1 == rm.balance * 100 < rm.initial_balance * MIN_BALANCE_RATIO_PCT
            c2 == /\ ds.starting_balance > 0
                  /\ ds.total_pnl < 0
                  /\ (-ds.total_pnl) * 100 >= MAX_DAILY_LOSS_PCT * ds.starting_balance
            c3 == /\ ds.consecutive_losses >= MAX_CONSECUTIVE_LOSSES
                  /\ ds.cooldown_until # NoTime
                  /\ now < ds.cooldown_until
            c4 == rm.open_trades_count >= MAX_OPEN_TRADES
            c5 == RoundToCents(rm.balance * MAX_RISK_PER_TRADE_PCT, 100) < MinStakeMills
        IN  /\ last'.allowed <=> ~(c1 \/ c2 \/ c3 \/ c4 \/ c5)
            /\ last'.reason = IF c1 THEN R_BALANCE
                              ELSE IF c2 THEN R_DAILY
                              ELSE IF c3 THEN R_COOLDOWN
                              ELSE IF c4 THEN R_OPEN
                              ELSE IF c5 THEN R_SMALL
                              ELSE R_OK]_vars

\* can_trade() answered with the balance floor while the daily loss limit,
\* the cooldown and the open-trade cap would block as well
C3_Witness ==
    /\ last.op = "can_trade"
    /\ last.reason = R_BALANCE
    /\ daily_stats.total_pnl * (-100) >= MAX_DAILY_LOSS_PCT * daily_stats.starting_balance
    /\ daily_stats.consecutive_losses >= MAX_CONSECUTIVE_LOSSES
    /\ daily_stats.cooldown_until # NoTime
    /\ now < daily_stats.cooldown_until
    /\ open_trades_count >= MAX_OPEN_TRADES

\* the calls that return what can_trade() answered
AsksCanTrade(call) == call.op \in {"can_trade", "get_status", "process_signal"}

\* C4 as claimed: from the moment a recorded loss brings consecutive_losses
\* to max_consecutive and sets cooldown_until, every can_trade() call made
\* earlier than that cooldown_until returns allowed = false, whatever
\* happens in between.
C4_BlockedUntilCooldownEnds ==
    (AsksCanTrade(last) /\ armed_until # NoTime /\ now < armed_until)
        => ~last.allowed

\* C4 as amended: a can_trade() call made before cooldown_until while the
\* streak still stands (consecutive_losses >= max_consecutive after the
\* call's own day rollover) returns allowed = false; and from one call to the
\* next the streak stands and its cooldown_until stays or moves later (a
\* further loss restarts the cooldown from that loss) unless a win is
\* recorded or the daily state is replaced by the day rollover.
C4_BlockedWhileStreakStands ==
    [][LET ds == ResetDailyStats(RM, now).daily_stats
           stands == /\ ds.consecutive_losses >= MAX_CONSECUTIVE_LOSSES
                     /\ ds.cooldown_until # NoTime
                     /\ now < ds.cooldown_until
       IN  /\ (AsksCanTrade(last') /\ stands) => ~last'.allowed
           /\ (stands /\ now' = now) =>
                 \/ /\ daily_stats'.consecutive_losses >= ds.consecutive_losses
                    /\ daily_stats'.cooldown_until >= ds.cooldown_until
                 \/ /\ daily_stats'.wins > ds.wins
                    /\ daily_stats'.consecutive_losses = 0]_vars

\* a call was refused while the streak stood and its cooldown ran
C4_Witness ==
    /\ AsksCanTrade(last)
    /\ ~last.allowed
    /\ daily_stats.consecutive_losses >= MAX_CONSECUTIVE_LOSSES
    /\ armed_until = daily_stats.cooldown_until
    /\ now < daily_stats.cooldown_until
    /\ now > armed_until - COOLDOWN_MINUTES

\* the positions in active_trades of the trades a step moves to completed_trades
Moved == {i \in 1..Len(active_trades) :
             /\ active_trades[i].id \in Ids(completed_trades')
             /\ active_trades[i].id \notin Ids(completed_trades)}

\* C5: each trade is resolved exactly once: a resolved trade is moved from
\* active_trades to completed_trades, record_trade_result and close_trade
\* are each called once for it, and in every later state its resolved flag
\* stays true and its result, pnl and exit_price never change.
C5_ResolvedExactlyOnce ==
    [][/\ Len(completed_trades') >= Len(completed_trades)
       /\ SubSeq(completed_trades', 1, Len(completed_trades)) = completed_trades
       /\ \A j \in 1..Len(completed_trades') :
             /\ completed_trades'[j].resolved
             /\ \A k \in 1..Len(completed_trades') :
                   completed_trades'[j].id = completed_trades'[k].id => j = k
       /\ Ids(active_trades') \cap Ids(completed_trades') = {}
       /\ Moved # {} =>
             /\ Len(trade_history') = Len(trade_history) + Cardinality(Moved)
             /\ open_trades_count' = open_trades_count - Cardinality(Moved)
             /\ Len(completed_trades') = Len(completed_trades) + Cardinality(Moved)]_vars

\* a trade resolved in an earlier call is still there, unchanged, after a
\* later call resolved another one
C5_Witness ==
    /\ Len(completed_trades) >= 2
    /\ completed_trades[1].symbol # "DEMO"
    /\ completed_trades[2].symbol # "DEMO"
    /\ completed_trades[1].entry_time = completed_trades[2].entry_time
    /\ completed_trades[1].expiry_time =
           completed_trades[1].entry_time + TRADE_EXPIRY_MINUTES
    /\ completed_trades[2].expiry_time >
           completed_trades[2].entry_time + TRADE_EXPIRY_MINUTES
    /\ Len(trade_history) = 2
    /\ open_trades_count = 0

\* C6: when can_trade() is false, process_signal returns None, consumes no
\* trade id and leaves active_trades, open_trades_count and balance
\* unchanged; the log entry it appended ends with action BLOCKED carrying
\* the risk manager's reason; no log entry is left with action PENDING.
C6_BlockedSignal ==
    [][(last'.op = "process_signal" /\ Len(signal_log') = Len(signal_log) + 1) =>
        LET ct == CanTrade(RM, now)
            entry == signal_log'[Len(signal_log')]
        IN  /\ \A i \in 1..Len(signal_log') : signal_log'[i].action # "PENDING"
            /\ SubSeq(signal_log', 1, Len(signal_log)) = signal_log
            /\ ~ct.allowed =>
                  /\ last'.trade = 0
                  /\ trade_counter' = trade_counter
                  /\ active_trades' = active_trades
                  /\ open_trades_count' = open_trades_count
                  /\ balance' = balance
                  /\ entry.action = "BLOCKED"
                  /\ entry.detail = ct.reason
                  /\ entry.detail # R_OK]_vars

\* a signal was refused and logged as blocked by the open-trade cap
C6_Witness ==
    /\ last.op = "process_signal"
    /\ last.trade = 0
    /\ signal_log # <<>>
    /\ signal_log[Len(signal_log)].action = "BLOCKED"
    /\ signal_log[Len(signal_log)].detail = R_OPEN
    /\ Len(active_trades) = MAX_OPEN_TRADES

\* C7: a resolved CALL trade has result WIN iff exit_price > entry_price, a
\* resolved PUT trade has result WIN iff exit_price < entry_price; equal
\* prices give LOSS for both directions.
C7_WinIffPriceMoved ==
    \A i \in 1..Len(completed_trades) :
        LET tr == completed_trades[i]
        IN  /\ tr.result \in {"WIN", "LOSS"}
            /\ tr.direction \in {"CALL", "PUT"}
            /\ tr.exit_price # NoPrice
            /\ tr.direction = "CALL" =>
                  (tr.result = "WIN" <=> tr.exit_price > tr.entry_price)
            /\ tr.direction = "PUT" =>
                  (tr.result = "WIN" <=> tr.exit_price < tr.entry_price)
            /\ tr.exit_price = tr.entry_price => tr.result = "LOSS"

\* a CALL and a PUT trade both resolved at their entry price
C7_Witness ==
    /\ \E i \in 1..Len(completed_trades) :
          /\ completed_trades[i].direction = "CALL"
          /\ completed_trades[i].exit_price = completed_trades[i].entry_price
    /\ \E i \in 1..Len(completed_trades) :
          /\ completed_trades[i].direction = "PUT"
          /\ completed_trades[i].exit_price = completed_trades[i].entry_price

\* C8: every trade in completed_trades has pnl = stake * payout_rate when
\* its result is WIN and pnl = -stake when it is LOSS, the stake being the
\* one fixed when the trade was opened.
C8_PnlFromStake ==
    /\ [](\A i \in 1..Len(completed_trades) :
            LET tr == completed_trades[i]
            IN  /\ tr.result = "WIN" => tr.pnl * 100 = tr.stake * PAYOUT_RATE_PCT
                /\ tr.result = "LOSS" => tr.pnl = -tr.stake
                /\ tr.result \in {"WIN", "LOSS"})
    /\ [][/\ \A i \in 1..Len(active_trades), j \in 1..Len(active_trades') :
                active_trades[i].id = active_trades'[j].id =>
                    active_trades[i].stake = active_trades'[j].stake
          /\ \A i \in 1..Len(active_trades), j \in 1..Len(completed_trades') :
                active_trades[i].id = completed_trades'[j].id =>
                    active_trades[i].stake = completed_trades'[j].stake]_vars

\* a winning and a losing trade resolved with different stakes
C8_Witness ==
    \E i, j \in 1..Len(completed_trades) :
        /\ completed_trades[i].result = "WIN"
        /\ completed_trades[j].result = "LOSS"
        /\ completed_trades[j].symbol # "DEMO"
        /\ completed_trades[i].stake # completed_trades[j].stake

\* what check_and_resolve_trades(prices) makes of the engine
AfterCheck(prices) == CheckAndResolveTrades(TE, prices, now)

\* C9: for an active trade whose expiry_time has passed and whose symbol has
\* no entry in current_prices, check_and_resolve_trades keeps the trade in
\* active_trades unresolved with expiry_time increased by exactly 1 minute
\* and changes nothing else of it; handling it leaves balance, daily stats,
\* open_trades_count and completed_trades as they are (they change only
\* for the other trades the same call resolves).
C9_DeferredWithoutPrice ==
    \A prices \in PriceMaps :
        LET te == AfterCheck(prices)
            due == {i \in 1..Len(active_trades) : now >= active_trades[i].expiry_time}
            unpriced == {i \in due : active_trades[i].symbol \notin DOMAIN prices}
        IN  /\ \A i \in unpriced :
                  \E j \in 1..Len(te.active_trades) :
                      /\ te.active_trades[j] =
                            [active_trades[i] EXCEPT !.expiry_time = @ + 1]
                      /\ ~te.active_trades[j].resolved
                      /\ active_trades[i].id \notin Ids(te.completed_trades)
            /\ unpriced = due =>
                  /\ te.rm = RM
                  /\ te.completed_trades = completed_trades
                  /\ Len(te.active_trades) = Len(active_trades)
            /\ te.rm.open_trades_count = open_trades_count - Cardinality(due \ unpriced)
            /\ Len(te.rm.trade_history) = Len(trade_history) + Cardinality(due \ unpriced)

\* one trade was deferred by a call that resolved the other one, and was
\* deferred again later
C9_Witness ==
    /\ Len(active_trades) = 1
    /\ active_trades[1].expiry_time >= active_trades[1].entry_time + TRADE_EXPIRY_MINUTES + 2
    /\ \E i \in 1..Len(completed_trades) :
          /\ completed_trades[i].symbol # "DEMO"
          /\ completed_trades[i].entry_time = active_trades[1].entry_time
          /\ completed_trades[i].expiry_time =
                completed_trades[i].entry_time + TRADE_EXPIRY_MINUTES

\* C10: record_trade_result(won=true) sets consecutive_losses to 0,
\* record_trade_result(won=false) makes it one greater than at the start of
\* the call after the lazy day rollover; trades_taken increases by 1 in
\* both cases.
C10_StreakCounting ==
    [][(last'.op = "record_trade_result"
            /\ Len(trade_history') = Len(trade_history) + 1) =>
        LET ds == IF daily_stats.date # now \div MinutesPerDay
                  THEN [daily_stats EXCEPT !.trades_taken = 0,
                                           !.consecutive_losses = 0]
                  ELSE daily_stats
        IN  /\ daily_stats'.consecutive_losses =
                  IF last'.won THEN 0 ELSE ds.consecutive_losses + 1
            /\ daily_stats'.trades_taken = ds.trades_taken + 1]_vars

\* a win was recorded right after two losses of the same day
C10_Witness ==
    /\ last.op = "record_trade_result"
    /\ last.won
    /\ Len(trade_history) = 3
    /\ trade_history[1].result = "LOSS"
    /\ trade_history[2].result = "LOSS"
    /\ daily_stats.trades_taken = 3
    /\ daily_stats.consecutive_losses = 0

\* three losses of 0.40 recorded on one day from the default balance, and it
\* is still that day
ThreeLossesOfScenarioB ==
    /\ initial_balance = INITIAL_BALANCE
    /\ Len(trade_history) = 3
    /\ \A r \in 1..3 : trade_history[r].result = "LOSS" /\ trade_history[r].amount = 400
    /\ daily_stats.losses = 3

\* C11 as claimed: from balance 20.00, after three consecutive
\* record_trade_result(won=false, amount=0.40) calls on the same day the
\* balance is 18.80 and the next can_trade() call returns allowed = false
\* with the cooldown reason.
C11_ThreeLossesCooldownReason ==
    ThreeLossesOfScenarioB =>
        /\ balance = 18800
        /\ last.op = "can_trade" => (~last.allowed /\ last.reason = R_COOLDOWN)

\* C11 as amended: after the three losses the balance is 18.80 and the next
\* can_trade() call returns allowed = false with the daily loss limit
\* reason: the 1.20 lost is 6% of the day's starting balance and rule 2 is
\* evaluated before the cooldown rule, whose cooldown_until is set all the
\* same.
C11_ThreeLossesDailyLimitReason ==
    ThreeLossesOfScenarioB =>
        /\ balance = 18800
        /\ daily_stats.consecutive_losses = 3
        /\ daily_stats.cooldown_until # NoTime
        /\ last.op = "can_trade" => (~last.allowed /\ last.reason = R_DAILY)

\* can_trade() was asked right after the three losses, the cooldown running
C11_Witness ==
    /\ ThreeLossesOfScenarioB
    /\ last.op = "can_trade"
    /\ ~last.allowed
    /\ balance = 18800
    /\ now < daily_stats.cooldown_until

\* stake is balance x max_risk_per_trade rounded to a whole cent: a multiple
\* of 0.01 no further than half a cent from the exact product
IsRiskShareInCents(stake, bal) ==
    /\ stake % 10 = 0
    /\ Abs(100 * stake - MAX_RISK_PER_TRADE_PCT * bal) <= 500

\* C12: calculate_position_size() returns the current balance x
\* max_risk_per_trade rounded to 2 decimal places (20.00 gives 0.40),
\* computed from the balance at the time of the call, and the stake of a
\* trade opened by process_signal equals that value at the moment of opening.
C12_PositionSizeFromBalance ==
    [][/\ last'.op = "get_status" =>
             /\ IsRiskShareInCents(last'.amount, balance)
             /\ balance = INITIAL_BALANCE => last'.amount = 400
       /\ (last'.op = "process_signal" /\ last'.trade # 0) =>
             LET tr == active_trades'[Len(active_trades')]
             IN  /\ Len(active_trades') = Len(active_trades) + 1
                 /\ tr.id = last'.trade
                 /\ IsRiskShareInCents(tr.stake, balance)
                 /\ balance' = balance]_vars

\* a trade was opened with the stake of a balance that a win had raised, and
\* get_status then reported the same size
C12_Witness ==
    /\ last.op = "get_status"
    /\ balance > INITIAL_BALANCE
    /\ last.amount > 400
    /\ \E i \in 1..Len(active_trades) : active_trades[i].stake = last.amount
    /\ \E j \in 1..Len(completed_trades) : completed_trades[j].stake = 400
\* C16: on the first can_trade, record_trade_result or get_status call after
\* the calendar date differs from daily_stats.date, the daily state is
\* replaced before the call's own logic by a fresh one with starting_balance
\* = current balance, all counters 0 and cooldown_until cleared, while
\* balance, open_trades_count and trade_history are left unchanged by the
\* rollover (a record_trade_result then counts its one trade on the fresh
\* state).
C16_DayRollover ==
    [][(/\ last'.op \in {"can_trade", "record_trade_result", "get_status"}
        /\ daily_stats.date # Today(now)) =>
        LET ds == daily_stats'
            pnl == IF last'.won THEN (last'.amount * PAYOUT_RATE_PCT) \div 100
                   ELSE -last'.amount
        IN  /\ ds.date = Today(now)
            /\ ds.starting_balance = balance
            /\ ds.cooldown_until = NoTime
            /\ open_trades_count' = open_trades_count
            /\ SubSeq(trade_history', 1, Len(trade_history)) = trade_history
            /\ last'.op # "record_trade_result" =>
                  /\ ds.trades_taken = 0 /\ ds.wins = 0 /\ ds.losses = 0
                  /\ ds.total_pnl = 0 /\ ds.consecutive_losses = 0
                  /\ balance' = balance
                  /\ trade_history' = trade_history
            /\ last'.op = "record_trade_result" =>
                  /\ ds.trades_taken = 1
                  /\ ds.wins = (IF last'.won THEN 1 ELSE 0)
                  /\ ds.losses = (IF last'.won THEN 0 ELSE 1)
                  /\ ds.consecutive_losses = ds.losses
                  /\ ds.total_pnl = pnl
                  /\ balance' = balance + pnl
                  /\ Len(trade_history') = Len(trade_history) + 1]_vars

\* can_trade() was the first call of a new day, after a day that had left a
\* loss streak, a cooldown and a changed balance behind
C16_Witness ==
    /\ last.op = "can_trade"
    /\ daily_stats = DailyStats(Today(now), balance)
    /\ Today(now) # Today(armed_until - COOLDOWN_MINUTES)
    /\ now < armed_until
    /\ balance # initial_balance
    /\ Len(trade_history) >= MAX_CONSECUTIVE_LOSSES

\* the operations of the risk manager other than record_trade_result
ReadsOnly(call) ==
    call.op \in {"can_trade", "calculate_position_size", "open_trade",
                 "close_trade", "get_status"}

\* C19 as claimed: record_trade_result is the only operation that writes
\* balance and streak state: can_trade, calculate_position_size, open_trade,
\* close_trade and get_status leave balance, consecutive_losses and
\* cooldown_until exactly as they were before the call.
C19_OnlyRecordWrites ==
    [][ReadsOnly(last') =>
        /\ balance' = balance
        /\ daily_stats'.consecutive_losses = daily_stats.consecutive_losses
        /\ daily_stats'.cooldown_until = daily_stats.cooldown_until]_vars

\* C19 as amended: record_trade_result is the only operation that writes
\* balance; calculate_position_size, open_trade and close_trade leave the
\* streak state as it was too; can_trade and get_status either leave
\* consecutive_losses and cooldown_until as they were or clear both (0 and
\* none), and they clear them only at the day rollover or when
\* consecutive_losses >= max_consecutive and cooldown_until has passed.
C19_OnlyRecordWritesBalance ==
    [][/\ balance' # balance => last'.op = "record_trade_result"
       /\ last'.op \in {"calculate_position_size", "open_trade", "close_trade"} =>
             daily_stats' = daily_stats
       /\ last'.op \in {"can_trade", "get_status"} =>
             LET cl == daily_stats.consecutive_losses
                 cu == daily_stats.cooldown_until
                 cl1 == daily_stats'.consecutive_losses
                 cu1 == daily_stats'.cooldown_until
             IN  \/ cl1 = cl /\ cu1 = cu
                 \/ /\ cl1 = 0 /\ cu1 = NoTime
                    /\ \/ daily_stats.date # Today(now)
                       \/ cl >= MAX_CONSECUTIVE_LOSSES /\ cu # NoTime /\ now >= cu]_vars

\* can_trade() cleared a streak whose cooldown had passed, on the day of the
\* streak, and allowed the trade
C19_Witness ==
    /\ last.op = "can_trade"
    /\ last.allowed
    /\ armed_until # NoTime
    /\ now >= armed_until
    /\ Today(now) = daily_stats.date
    /\ daily_stats.date = Today(armed_until - COOLDOWN_MINUTES)
    /\ daily_stats.losses >= MAX_CONSECUTIVE_LOSSES
    /\ daily_stats.wins = 0
    /\ daily_stats.consecutive_losses = 0
    /\ daily_stats.cooldown_until = NoTime

\* C20: no trade is resolved before its expiry: whenever
\* check_and_resolve_trades moves a trade to completed_trades, the current
\* time is at or after that trade's expiry_time (entry_time plus the expiry
\* window plus any 1-minute deferrals), and a trade that is not yet expired
\* stays active with all fields unchanged even when a price for its symbol
\* is supplied.
C20_NotResolvedBeforeExpiry ==
    [][/\ \A i \in Moved :
             /\ now >= active_trades[i].expiry_time
             /\ active_trades[i].expiry_time >=
                    active_trades[i].entry_time + TRADE_EXPIRY_MINUTES
             /\ \E j \in 1..Len(completed_trades') :
                    /\ completed_trades'[j].id = active_trades[i].id
                    /\ completed_trades'[j].expiry_time = active_trades[i].expiry_time
       /\ \A i \in 1..Len(active_trades) :
             now < active_trades[i].expiry_time =>
                 /\ \E j \in 1..Len(active_trades') : active_trades'[j] = active_trades[i]
                 /\ active_trades[i].id \notin Ids(completed_trades')]_vars

\* a trade was resolved with a price for its symbol while a younger trade on
\* the same symbol, opened before that and not yet expired, stayed active
C20_Witness ==
    \E j \in 1..Len(completed_trades), i \in 1..Len(active_trades) :
        /\ completed_trades[j].symbol = active_trades[i].symbol
        /\ completed_trades[j].exit_price # NoPrice
        /\ active_trades[i].entry_time < completed_trades[j].expiry_time
        /\ active_trades[i].expiry_time = active_trades[i].entry_time + TRADE_EXPIRY_MINUTES
        /\ now < active_trades[i].expiry_time
        /\ active_trades[i].exit_price = NoPrice
        /\ ~active_trades[i].resolved

\* the sum of f over its domain
RECURSIVE SumOf(_)
SumOf(f) ==
    IF DOMAIN f = {} THEN 0
    ELSE LET x == CHOOSE y \in DOMAIN f : TRUE
         IN  f[x] + SumOf([z \in DOMAIN f \ {x} |-> f[z]])

\* weight x score summed over the indicators that analyze() found voting dir
VoteSum(dir) ==
    SumOf([ind \in {v \in DOMAIN analysis.results :
                       analysis.results[v].direction = dir}
             |-> weights[ind] * analysis.results[ind].score])

\* analyze() has returned
Analyzed == analysis.stage # "not_run"

\* C13: analyze returns a Signal only when the computed confidence (after
\* agreement ratio and agreement bonus) is at least MIN_SIGNAL_CONFIDENCE;
\* for every input whose confidence is below it, analyze returns None, so
\* every emitted Signal has confidence >= MIN_SIGNAL_CONFIDENCE also after
\* its rounding to one decimal.
C13_SignalOnlyAboveFloor ==
    Analyzed =>
        LET c == analysis.confidence
        IN  /\ analysis.signal # NoSignal =>
                  /\ analysis.stage = "done"
                  /\ c.num >= MIN_SIGNAL_CONFIDENCE * c.den
                  /\ analysis.signal.confidence >= 10 * MIN_SIGNAL_CONFIDENCE
            /\ c.num < MIN_SIGNAL_CONFIDENCE * c.den => analysis.signal = NoSignal

\* a Signal was emitted whose confidence had to be rounded to one decimal
C13_Witness ==
    /\ analysis.stage = "done"
    /\ weights = INDICATOR_WEIGHTS
    /\ analysis.signal # NoSignal
    /\ analysis.signal.confidence * analysis.confidence.den # 10 * analysis.confidence.num
    /\ analysis.signal.confidence < 10 * (MIN_SIGNAL_CONFIDENCE + 5)

\* C14: the signal direction is CALL when the weighted sum (weight x score)
\* of CALL-voting indicators is greater than or equal to that of PUT-voting
\* indicators and PUT otherwise, NEUTRAL indicators add to neither sum, and
\* when both sums are zero no signal is emitted.
C14_DirectionByWeightedVote ==
    analysis.stage \in {"done", "no_votes"} =>
        LET call_sum == VoteSum("CALL")
            put_sum == VoteSum("PUT")
        IN  /\ analysis.stage = "no_votes" <=> (call_sum = 0 /\ put_sum = 0)
            /\ analysis.stage = "no_votes" => analysis.signal = NoSignal
            /\ analysis.stage = "done" =>
                  /\ analysis.call_weight = call_sum
                  /\ analysis.put_weight = put_sum
                  /\ analysis.overall_direction =
                         (IF call_sum >= put_sum THEN "CALL" ELSE "PUT")
                  /\ analysis.signal # NoSignal =>
                         analysis.signal.direction = analysis.overall_direction

\* the two sums tied above zero, with a NEUTRAL indicator of score 30 left
\* out of both, and the direction was CALL
C14_Witness ==
    /\ analysis.stage = "done"
    /\ weights = INDICATOR_WEIGHTS
    /\ analysis.call_weight = analysis.put_weight
    /\ analysis.call_weight > 0
    /\ analysis.overall_direction = "CALL"
    /\ analysis.results["support_resistance"] = Scored(30, "NEUTRAL")

\* the indicators analyze() found voting the winning direction
Agreeing ==
    Cardinality({ind \in DOMAIN analysis.results :
                    analysis.results[ind].direction = analysis.overall_direction})

\* C15: confidence is multiplied by 1.15 when at least 5 of the 6 indicators
\* vote the winning direction, by 1.05 when exactly 4 do, and is unchanged
\* otherwise, with the result capped at 100; so 5 CALL votes against 1 PUT
\* with base confidence 60 gives 69 and no signal under the floor of 70.
C15_AgreementBonus ==
    analysis.stage = "done" =>
        LET b == analysis.base
            c == analysis.confidence
            f == IF Agreeing >= 5 THEN <<23, 20>>
                 ELSE IF Agreeing = 4 THEN <<21, 20>>
                 ELSE <<1, 1>>
        IN  /\ IF Agreeing >= 4 /\ b.num * f[1] > 100 * b.den * f[2]
               THEN c.num = 100 * c.den
               ELSE c.num = b.num * f[1] /\ c.den = b.den * f[2]
            /\ (Agreeing = 5 /\ b.num = 60 * b.den) =>
                  /\ c.num = 69 * c.den
                  /\ analysis.signal = NoSignal

\* five CALL votes against one PUT on a base confidence of 60
C15_Witness ==
    /\ analysis.stage = "done"
    /\ weights = INDICATOR_WEIGHTS
    /\ analysis.overall_direction = "CALL"
    /\ Agreeing = 5
    /\ \E ind \in DOMAIN analysis.results : analysis.results[ind].direction = "PUT"
    /\ analysis.base.num = 60 * analysis.base.den
    /\ analysis.confidence.num = 69 * analysis.confidence.den
    /\ analysis.signal = NoSignal

\* the indicators whose computation fails on the frame
Failing == {ind \in DOMAIN NoResults : df[ind].st \in {"raise", "nan"}}

\* the frame with the statistics of ind replaced by ones that compute
Mended(ind) ==
    CASE ind = "rsi" -> [df EXCEPT !.rsi = [st |-> "ok", rsi_val |-> 15]]
      [] ind = "macd" ->
            [df EXCEPT !.macd = [st |-> "ok", histogram |-> 1, prev_histogram |-> 0]]
      [] ind = "bollinger" ->
            [df EXCEPT !.bollinger = [st |-> "ok", lower |-> 10000, upper |-> 10100]]
      [] ind = "ema_cross" ->
            [df EXCEPT !.ema_cross = [st |-> "ok", fast_now |-> 10010, slow_now |-> 10000,
                                      fast_prev |-> 9990, slow_prev |-> 10000]]
      [] ind = "stochastic" ->
            [df EXCEPT !.stochastic = [st |-> "ok", k_val |-> 10, d_val |-> 5,
                                       k_prev |-> 4, d_prev |-> 6, prev_ok |-> TRUE]]
      [] ind = "support_resistance" ->
            [df EXCEPT !.support_resistance =
                 [st |-> "ok", peak |-> 10020, high_base |-> 10020, trough |-> 9996,
                  low_base |-> 9998]]

\* C17: when the computation of one indicator fails (raises or yields NaN)
\* during analyze, that indicator alone contributes score 0 with direction
\* NEUTRAL, and the other five indicators are still computed and contribute
\* their normal scores and directions to the aggregation.
C17_FailureIsLocal ==
    (Analyzed /\ df.nbars >= MinBars) =>
        /\ analysis.stage \in {"done", "no_votes"}
        /\ \A ind \in Failing :
              /\ analysis.results[ind].score = 0
              /\ analysis.results[ind].direction = "NEUTRAL"
              /\ \A other \in DOMAIN NoResults \ {ind} :
                    analysis.results[other] = IndicatorResult(other, Mended(ind))
        /\ analysis.stage = "done" =>
              /\ analysis.call_weight = VoteSum("CALL")
              /\ analysis.put_weight = VoteSum("PUT")

\* one indicator raised, the other five computed and voted, and the Signal
\* was emitted on their votes
C17_Witness ==
    /\ analysis.stage = "done"
    /\ weights = INDICATOR_WEIGHTS
    /\ Failing = {"support_resistance"}
    /\ df.support_resistance.st = "raise"
    /\ \A ind \in DOMAIN NoResults \ Failing : analysis.results[ind].score > 0
    /\ analysis.signal # NoSignal

\* C18: initialisation with an invalid configuration (for example a negative
\* indicator weight) is refused: no SignalEngine built on one is there to
\* run analyze().
C18_InvalidConfigRefused ==
    Analyzed => \A ind \in DOMAIN weights : weights[ind] >= 0

\* a loss was recorded by the step: the daily state the call found after its
\* day rollover
LossRecorded ==
    /\ last'.op = "record_trade_result"
    /\ ~last'.won
    /\ Len(trade_history') = Len(trade_history) + 1

CanTradeOnStreak ==
    /\ last'.op = "can_trade"
    /\ daily_stats.consecutive_losses >= MAX_CONSECUTIVE_LOSSES
    /\ daily_stats.cooldown_until # NoTime

\* rules 1 and 2 pass in the call the step makes: the balance is at or above
\* the floor and the loss of the day the call is made on is under the limit
FloorAndDailyLossPass ==
    LET day_pnl == IF daily_stats.date = now \div MinutesPerDay
                   THEN daily_stats.total_pnl ELSE 0
        day_start == IF daily_stats.date = now \div MinutesPerDay
                     THEN daily_stats.starting_balance ELSE balance
    IN  /\ balance * 100 >= initial_balance * MIN_BALANCE_RATIO_PCT
        /\ ~(day_pnl < 0 /\ (-day_pnl) * 100 >= MAX_DAILY_LOSS_PCT * day_start)

\* the answer of the step's call is the one rules 4 and 5 give
DecidedByOpenTradesAndSize ==
    LET c4 == open_trades_count >= MAX_OPEN_TRADES
        c5 == RoundToCents(balance * MAX_RISK_PER_TRADE_PCT, 100) < MinStakeMills
    IN  /\ last'.allowed <=> ~(c4 \/ c5)
        /\ last'.reason = IF c4 THEN R_OPEN ELSE IF c5 THEN R_SMALL ELSE R_OK

\* C23 as claimed: when can_trade() is called with consecutive_losses >=
\* max_consecutive at a time now >= cooldown_until and rules 1 and 2 pass, it
\* clears cooldown_until, resets consecutive_losses to 0, and its result is
\* decided by rules 4 and 5 alone; when the same call is made with now <
\* cooldown_until it returns false and changes neither field.
C23_CooldownExpiry ==
    [][CanTradeOnStreak =>
        IF now >= daily_stats.cooldown_until
        THEN FloorAndDailyLossPass =>
                /\ daily_stats'.cooldown_until = NoTime
                /\ daily_stats'.consecutive_losses = 0
                /\ DecidedByOpenTradesAndSize
        ELSE /\ ~last'.allowed
             /\ daily_stats'.cooldown_until = daily_stats.cooldown_until
             /\ daily_stats'.consecutive_losses = daily_stats.consecutive_losses]_vars

\* C23 as amended: the first half as claimed; when the same call is made with
\* now < cooldown_until on the day the daily state is of, it returns false
\* and changes neither field; made on a later day, the call's day rollover
\* replaces the daily state, which clears both fields as well, and with rules
\* 1 and 2 passing the result is again decided by rules 4 and 5 alone.
C23_CooldownExpiryWithinDay ==
    [][CanTradeOnStreak =>
        IF now >= daily_stats.cooldown_until \/ daily_stats.date # now \div MinutesPerDay
        THEN FloorAndDailyLossPass =>
                /\ daily_stats'.cooldown_until = NoTime
                /\ daily_stats'.consecutive_losses = 0
                /\ DecidedByOpenTradesAndSize
        ELSE /\ ~last'.allowed
             /\ daily_stats'.cooldown_until = daily_stats.cooldown_until
             /\ daily_stats'.consecutive_losses = daily_stats.consecutive_losses]_vars

\* can_trade() was called at the minute the cooldown of three losses of the
\* day ended: it cleared the streak and allowed the trade
C23_Witness ==
    /\ last.op = "can_trade"
    /\ last.allowed
    /\ armed_until = now
    /\ daily_stats.date = now \div MinutesPerDay
    /\ daily_stats.losses >= MAX_CONSECUTIVE_LOSSES
    /\ daily_stats.wins = 0
    /\ daily_stats.consecutive_losses = 0
    /\ daily_stats.cooldown_until = NoTime

\* C24: the stake of every trade opened by process_signal is at most
\* max_risk_per_trade (2%) of the balance at the moment the trade is opened.
C24_StakeWithinRiskShare ==
    [][(last'.op = "process_signal" /\ last'.trade # 0) =>
        \A i \in 1..Len(active_trades') :
            active_trades'[i].id = last'.trade =>
                active_trades'[i].stake * 100 <= MAX_RISK_PER_TRADE_PCT * balance]_vars

\* C25: in every reachable state the day's realized loss (the negative part
\* of daily total_pnl) is at most max_daily_loss_pct (5%) of the day's
\* starting balance.
C25_DailyLossWithinLimit ==
    daily_stats.total_pnl < 0 =>
        (-daily_stats.total_pnl) * 100 <= MAX_DAILY_LOSS_PCT * daily_stats.starting_balance

\* C26: in every reachable state open_trades_count and the length of
\* active_trades are at most MAX_OPEN_TRADES, for any sequence of
\* process_signal and check_and_resolve_trades calls, including several
\* signals processed within one scan step.
C26_OpenTradesCapped ==
    /\ open_trades_count <= MAX_OPEN_TRADES
    /\ Len(active_trades) <= MAX_OPEN_TRADES

\* three signals came in the same minute: two trades were opened and the
\* third signal was refused by the cap
C26_Witness ==
    /\ last.op = "process_signal"
    /\ ~last.allowed
    /\ last.reason = R_OPEN
    /\ open_trades_count = MAX_OPEN_TRADES
    /\ Len(active_trades) = MAX_OPEN_TRADES
    /\ \A i \in 1..Len(active_trades) : active_trades[i].entry_time = now
    /\ Len(signal_log) = MAX_OPEN_TRADES + 1

\* C27: the balance never becomes negative: after any sequence of trades
\* opened through process_signal and resolved through
\* check_and_resolve_trades, including trades whose resolution was deferred
\* for a long time while the balance fell, balance >= 0.
C27_BalanceNeverNegative == balance >= 0

\* C28: every result of get_status() is consistent about the cooldown:
\* whenever it reports cooldown_active = true it also reports can_trade =
\* false, also after a winning trade is resolved while a cooldown is pending.
C28_StatusCooldownConsistent ==
    (last.op = "get_status" /\ last.cooldown_active) => ~last.allowed

\* C29: in every reachable state each trade ever created by process_signal
\* is in exactly one of active_trades and completed_trades (it is put into
\* active_trades when created, is never in both and never dropped); every
\* trade in active_trades has resolved = false, result unset and pnl 0, and
\* every trade in completed_trades has resolved = true, result WIN or LOSS
\* and exit_price set.
C29_TradeInOneCollection ==
    /\ [](/\ Ids(active_trades) \cap Ids(completed_trades) = {}
          /\ Cardinality(Ids(active_trades)) = Len(active_trades)
          /\ Cardinality(Ids(completed_trades)) = Len(completed_trades)
          /\ \A i \in 1..Len(active_trades) :
                /\ ~active_trades[i].resolved
                /\ active_trades[i].result = "NONE"
                /\ active_trades[i].pnl = 0
          /\ \A i \in 1..Len(completed_trades) :
                /\ completed_trades[i].resolved
                /\ completed_trades[i].result \in {"WIN", "LOSS"}
                /\ completed_trades[i].exit_price # NoPrice)
    /\ [][/\ (last'.op = "process_signal" /\ last'.trade # 0) =>
                /\ last'.trade \notin Ids(active_trades) \cup Ids(completed_trades)
                /\ last'.trade \in Ids(active_trades')
          /\ Ids(active_trades) \cup Ids(completed_trades)
                \subseteq Ids(active_trades') \cup Ids(completed_trades')]_vars

\* of three trades created by process_signal one was won, one lost and one
\* is still open
C29_Witness ==
    /\ Len(active_trades) = 1
    /\ Len(completed_trades) = 2
    /\ \A i \in 1..2 : completed_trades[i].symbol # "DEMO"
    /\ {completed_trades[i].result : i \in 1..2} = {"WIN", "LOSS"}
    /\ trade_counter = 3

\* _analyze_ema_cross has returned on EMAs without a fresh cross that differ
EmaTrendScored ==
    LET x == df.ema_cross
    IN  /\ analysis.stage = "ema_cross"
        /\ x.st = "ok"
        /\ ~(x.fast_prev <= x.slow_prev /\ x.fast_now > x.slow_now)
        /\ ~(x.fast_prev >= x.slow_prev /\ x.fast_now < x.slow_now)
        /\ x.fast_now # x.slow_now

\* C30 as claimed: when there is no fresh EMA cross and the fast and slow EMA
\* differ, _analyze_ema_cross returns score min(70, 40 + gap_pct) where
\* gap_pct = |fast - slow| / slow x 100, with direction CALL when the fast
\* EMA is above the slow EMA and PUT when below.
C30_EmaTrendScore ==
    EmaTrendScored =>
        LET x == df.ema_cross
            gap == Abs(x.fast_now - x.slow_now)
        IN  /\ analysis.result.score * x.slow_now =
                  Min(70 * x.slow_now, 40 * x.slow_now + 100 * gap)
            /\ analysis.result.direction =
                  (IF x.fast_now > x.slow_now THEN "CALL" ELSE "PUT")

\* C30 as amended: the score is min(70, 40 + 100 x gap_pct), gap_pct being
\* that percentage distance: a gap of 0.01% adds one point and the score
\* reaches 70 at a gap of 0.3%; the direction is as claimed.
C30_EmaTrendScoreHundredfold ==
    EmaTrendScored =>
        LET x == df.ema_cross
            gap == Abs(x.fast_now - x.slow_now)
        IN  /\ analysis.result.score * x.slow_now =
                  Min(70 * x.slow_now, 40 * x.slow_now + 10000 * gap)
            /\ analysis.result.direction =
                  (IF x.fast_now > x.slow_now THEN "CALL" ELSE "PUT")

\* the fast EMA stayed 0.29% under the slow one: PUT with score 69
C30_Witness ==
    /\ EmaTrendScored
    /\ 10000 * (df.ema_cross.slow_now - df.ema_cross.fast_now) = 29 * df.ema_cross.slow_now
    /\ analysis.result = Scored(69, "PUT")

ActiveIds == {active_trades[i].id : i \in 1..Len(active_trades)}
CompletedIds == {completed_trades[i].id : i \in 1..Len(completed_trades)}

\* whatever the scans before it, a call made now without a price for the
\* symbol of an active trade leaves that trade in active_trades
StaysActiveWithoutPrice ==
    \A prices \in PriceMaps : \A i \in 1..Len(active_trades) :
        active_trades[i].symbol \notin DOMAIN prices =>
            LET after == CheckAndResolveTrades(TE, prices, now).active_trades
            IN  \E j \in 1..Len(after) : after[j].id = active_trades[i].id

\* a trade leaves active_trades only in a call that is given a price for
\* its symbol, and it leaves it resolved into completed_trades
LeavesOnlyWithPrice ==
    \A i \in 1..Len(active_trades) :
        active_trades[i].id \notin ActiveIds' =>
            /\ \E prices \in PriceMaps :
                  /\ active_trades[i].symbol \in DOMAIN prices
                  /\ TE' = CheckAndResolveTrades(TE, prices, now)
            /\ \E j \in 1..Len(completed_trades') :
                  /\ completed_trades'[j].id = active_trades[i].id
                  /\ completed_trades'[j].resolved

\* a call found the trade due and was given no price for its symbol
FoundWithoutPrice(id) ==
    \E i \in 1..Len(active_trades) : \E j \in 1..Len(active_trades') :
        /\ active_trades[i].id = id
        /\ active_trades'[j].id = id
        /\ active_trades'[j].expiry_time # active_trades[i].expiry_time

\* C21: under repeated check_and_resolve_trades calls with advancing time,
\* an active trade stays active for as long as no price for its symbol is
\* supplied, however often it has been retried, and if from some point on
\* every call supplies a price for its symbol the trade is eventually
\* resolved.
C21_DeferredUntilPriced ==
    /\ []StaysActiveWithoutPrice
    /\ [][LeavesOnlyWithPrice]_vars
    /\ \A id \in 1..MaxTradesLive :
          (<>[][~FoundWithoutPrice(id)]_vars)
              => [](id \in ActiveIds => <>(id \in CompletedIds))

\* a trade found without a price MaxDefersLive times has been resolved
C21_Witness ==
    \E j \in 1..Len(completed_trades) :
        /\ completed_trades[j].resolved
        /\ completed_trades[j].symbol \in Symbols
        /\ Deferrals(completed_trades[j]) = MaxDefersLive

====
